---- MODULE Spec2Model ----
(***************************************************************************)
(* A model of the reloadable Loader of envx (loader.go): the held          *)
(* instance and its version counter, the RWMutex that guards them, the     *)
(* watch cycle (stop channel, WaitGroup, background watchLoop goroutine),  *)
(* the reload callback goroutines, and the callers and environment that    *)
(* drive them; and of one resolution pass of loadInternal (loader.go,       *)
(* parser.go, providers): providers merged in order under the prefix,      *)
(* fields bound from the merged mapping, then the three checks; and of the  *)
(* derivation of a key from a field name (toScreamingSnake).               *)
(***************************************************************************)
EXTENDS Integers, Sequences, FiniteSets, TLC

\* ------------------------------------------------------------- bounds
\* The watch file's modification time runs over 0..MaxMTime.
MaxMTime == 2
\* At most MaxAlloc records are ever returned by successful resolutions.
MaxAlloc == 2
\* At most MaxCycles watch cycles (background tasks) are ever started.
MaxCycles == 2
\* At most MaxProviders providers are passed to one resolution.
MaxProviders == 2
\* The names given to toScreamingSnake are up to MaxNameLen runes long.
MaxNameLen == 4

\* ------------------------------------------------------------- values
\* The goroutines that call the Loader's exported methods.
Callers == {"c1", "c2"}
Cycles == 1..MaxCycles

\* What the providers' source holds for the one key PORT of the record type
\* the Loader is instantiated with: "ERR" makes Values() fail, "unset" is a
\* source without the key, the others are the string stored under PORT.
Raw == {"ERR", "unset", "", "1", "2", "8", "9"}

\* The record type T of the model: struct { Port int `required:"true"` }
\* with an option validator that rejects Port = 1 and a Validate() method
\* that rejects Port = 2.
NoCfg == [id |-> 0, port |-> 0]
IsNil(cfg) == cfg.id = 0

NoHolder == [c |-> "-", k |-> 0]
ByCaller(c) == [c |-> c, k |-> 0]
ByTask(k) == [c |-> "-", k |-> k]

\* A call or a return made by a step: the callee or the returning method,
\* the caller or task that made it, and the arguments.
Ev0 == [ev |-> "", c |-> "-", k |-> 0, a |-> NoCfg, b |-> NoCfg, n |-> 0,
        err |-> "none"]
NoLoc == [cfg |-> NoCfg, err |-> "none", stop |-> 0, sawIdle |-> FALSE]
NoTLoc == [old |-> NoCfg, new |-> NoCfg, err |-> "none"]
\* No reload callback is being executed by the goroutine.
NoCb == [k |-> 0, old |-> NoCfg, new |-> NoCfg]

VARIABLES
    config,       \* Loader.config: the held instance (NoCfg is the nil pointer)
    version,      \* Loader.version
    stop,         \* Loader.stop: the cycle whose channel it holds, 0 for nil
    isWatching,   \* Loader.isWatching
    mu,           \* Loader.mu: who holds the write lock
    wgCount,      \* Loader.watchWG: the counter
    wgWaiters,    \* Loader.watchWG: the number of registered waiters
    wgBlocked,    \* callers parked on the WaitGroup's semaphore
    stopClosed,   \* the cycles whose stop channel has been closed
    watchPath,    \* options.watchPath is set
    watchEvery,   \* options.watchEvery
    onReload,     \* Loader.onReload is not nil
    onReloadError,\* options.onReloadError is not nil
    pc,           \* each caller's position
    loc,          \* each caller's locals (cfg of loadLocked, stop of StopWatching)
    tpc,          \* each watchLoop goroutine's position
    lastMod,      \* each watchLoop's lastMod
    tloc,         \* each watchLoop's locals in reloadConfig
    cbPending,    \* onReload goroutines spawned and not yet running
    rpc,          \* the reader's position
    rInst,        \* the reader's result of Get()
    mtime,        \* the watch file's modification time
    src,          \* what the providers' source holds
    statFails,    \* os.Stat of the watch file fails
    nalloc,       \* records allocated by successful resolutions
    spawned,      \* watch cycles started so far
    panicked,     \* the process died of a runtime panic
    emit,         \* what the last step called or returned
    scn,          \* the program around the Loader: its threads and its sources
    hist,         \* history: the record whose swap produced each version
    stopReturned, \* history: cycles whose StopWatching() call has returned
    failed,       \* history (kept when scn.history): live cycles that had a
                  \* re-resolution fail
    quiet,        \* history: a StopWatching() has returned with the Loader not
                  \* watching and no other call in progress, and no Load() or
                  \* StartWatching() has been called since
    rp,           \* one resolution pass of loadInternal, step by step: its
                  \* options, the merged mapping, the record being bound, the
                  \* calls made so far and the result
    kd,           \* one key derivation: the name given to toScreamingSnake,
                  \* the key it returns, and the key derived from that key
    cbRun,        \* the reload callback each goroutine started by
                  \* triggerOnReload is executing, for the callbacks whose
                  \* body calls the Loader
    unretried,    \* history (kept when scn.track): live cycles whose latest
                  \* re-resolution failed
    origin        \* history (kept when scn.track): what made the swap that
                  \* produced each version

loaderVars == <<config, version, stop, isWatching, mu>>
wgVars == <<wgCount, wgWaiters, wgBlocked>>
optVars == <<watchPath, watchEvery, onReload, onReloadError>>
callerVars == <<pc, loc>>
taskVars == <<tpc, lastMod, tloc>>
readerVars == <<rpc, rInst>>
envVars == <<mtime, src, statFails>>
histVars == <<hist, stopReturned, failed, quiet, unretried, origin>>
vars == <<loaderVars, wgVars, stopClosed, optVars, callerVars, taskVars,
          cbPending, readerVars, envVars, nalloc, spawned, panicked, emit,
          scn, histVars, rp, kd, cbRun>>

\* ------------------------------------------------------------- resolution
\* Provider.Values of the one provider: the flat mapping, or an error.
ProviderValues(raw) ==
    IF raw = "ERR" THEN [err |-> "provider", values |-> <<>>]
    ELSE [err |-> "none",
          values |-> [k \in (IF raw = "unset" THEN {} ELSE {"PORT"}) |-> raw]]

\* strconv.ParseInt on the strings of Raw.
ParseInt(s) ==
    CASE s = "1" -> [err |-> "none", n |-> 1]
      [] s = "2" -> [err |-> "none", n |-> 2]
      [] s = "8" -> [err |-> "none", n |-> 8]
      [] s = "9" -> [err |-> "none", n |-> 9]
      [] OTHER -> [err |-> "parse", n |-> 0]

\* parse: a key that is absent leaves the field at zero, otherwise the
\* string under it is parsed as a base-10 integer.
parse(values) ==
    IF "PORT" \notin DOMAIN values THEN [err |-> "none", port |-> 0]
    ELSE [err |-> ParseInt(values["PORT"]).err, port |-> ParseInt(values["PORT"]).n]

\* validateRequired: a required field that is still the zero value.
validateRequired(port) == IF port = 0 THEN "required" ELSE "none"

\* runOptionValidator with the validator of the model's options.
runOptionValidator(port) == IF port = 1 THEN "validation" ELSE "none"

\* runTypeValidator with the Validate() of the model's record type.
runTypeValidator(port) == IF port = 2 THEN "validation" ELSE "none"

\* Mutant: the record type's own Validate() is not run.
loadInternalNoTypeValidator(raw) ==
    LET pv == ProviderValues(raw) IN
    IF pv.err # "none" THEN [err |-> pv.err, port |-> 0]
    ELSE LET b == parse(pv.values) IN
         IF b.err # "none" THEN [err |-> b.err, port |-> 0]
         ELSE IF validateRequired(b.port) # "none"
                 THEN [err |-> validateRequired(b.port), port |-> 0]
         ELSE IF runOptionValidator(b.port) # "none"
                 THEN [err |-> runOptionValidator(b.port), port |-> 0]
         ELSE [err |-> "none", port |-> b.port]

\* loadInternal: providers, parse, then the three checks in order; the first
\* failure ends the pass with no record.
loadInternal(raw) ==
    LET pv == ProviderValues(raw) IN
    IF pv.err # "none" THEN [err |-> pv.err, port |-> 0]
    ELSE LET b == parse(pv.values) IN
         IF b.err # "none" THEN [err |-> b.err, port |-> 0]
         ELSE IF validateRequired(b.port) # "none"
                 THEN [err |-> validateRequired(b.port), port |-> 0]
         ELSE IF runOptionValidator(b.port) # "none"
                 THEN [err |-> runOptionValidator(b.port), port |-> 0]
         ELSE IF runTypeValidator(b.port) # "none"
                 THEN [err |-> runTypeValidator(b.port), port |-> 0]
         ELSE [err |-> "none", port |-> b.port]

\* Mutant: the two pointers are compared, not what they point to.
DeepEqualPointers(a, b) == a = b

\* reflect.DeepEqual on two *T: both nil, or both non-nil with equal pointees.
DeepEqual(a, b) ==
    \/ IsNil(a) /\ IsNil(b)
    \/ ~IsNil(a) /\ ~IsNil(b) /\ a.port = b.port

\* The record a successful resolution returns: a fresh pointer.
NewCfg(port) == [id |-> nalloc + 1, port |-> port]

\* ------------------------------------------------------------- binding
\* A key of the flat mapping: the words that "_" joins, in order, so that
\* prefix + "_" + key is the concatenation of the two sequences.
KeyPort == <<"PORT">>
KeyDbName == <<"DB", "NAME">>
KeyAppPort == <<"APP">> \o KeyPort

\* The values a provider can hold under a key (Go's any): nil, a string, or
\* a float64 as a JSON file gives for a number.
Nil == [t |-> "nil", s |-> "", n |-> 0]
Str(s) == [t |-> "string", s |-> s, n |-> 0]
Float(n) == [t |-> "float64", s |-> "", n |-> n]

\* A mapping with no key.
NoValues == [k \in {} |-> Nil]
\* The mapping with the one key k.
One(k, v) == [x \in {k} |-> v]
\* Mutant: an entry already in the mapping is kept.
MergeKeepsFirst(a, b) ==
    [k \in DOMAIN a \cup DOMAIN b |-> IF k \in DOMAIN a THEN a[k] ELSE b[k]]

\* for k, val := range v { values[k] = val }: b's entries overwrite a's.
Merge(a, b) ==
    [k \in DOMAIN a \cup DOMAIN b |-> IF k \in DOMAIN b THEN b[k] ELSE a[k]]

\* Mutant: the keys are left as the provider gave them.
applyPrefixNone(values, prefix) == values

\* applyPrefix: every key gets prefix + "_" in front; the same mapping when
\* the prefix is empty.
applyPrefix(values, prefix) ==
    IF prefix = <<>> THEN values
    ELSE [k2 \in {prefix \o k : k \in DOMAIN values} |->
            values[CHOOSE k \in DOMAIN values : prefix \o k = k2]]

\* The kinds of destination field: the ones setField has a case for, and
\* complex64 for the ones it has none for.
Kinds == {"string", "int", "duration", "uint", "float", "bool", "[]string",
          "[]int", "complex64"}

\* A field's value: text in s, a number (or a bool as 0 and 1) in n, a
\* slice's elements in l.
Zero == [s |-> "", n |-> 0, l |-> <<>>]
isZero(fv) == fv = Zero

\* strconv.ParseBool, strconv.ParseFloat, strconv.ParseUint and
\* time.ParseDuration on the strings of the model.
ParseBool(s) ==
    CASE s = "1" -> [err |-> "none", n |-> 1]
      [] OTHER -> [err |-> "parse", n |-> 0]
ParseFloat(s) == ParseInt(s)
ParseUint(s) == ParseInt(s)
ParseDuration(s) ==
    CASE s = "1s" -> [err |-> "none", n |-> 1000]
      [] OTHER -> [err |-> "parse", n |-> 0]

\* splitCSV and the TrimSpace of each part: none of the model's strings
\* holds a comma, and encoding/csv reads no record from the empty string,
\* so that strings.Split gives its one empty part.
normalizeSliceInput(val) ==
    IF val.t = "string" THEN [err |-> "none", items |-> <<Str(val.s)>>]
    ELSE [err |-> "source", items |-> <<>>]

\* setIntValue, setUintValue, setFloatValue, setBoolValue, setDuration: a
\* float64 is converted, a string is parsed, anything else is an error.
setNumber(kind, val) ==
    LET p == CASE kind = "int" -> ParseInt(val.s)
               [] kind = "uint" -> ParseUint(val.s)
               [] kind = "float" -> ParseFloat(val.s)
               [] kind = "bool" -> ParseBool(val.s)
               [] kind = "duration" -> ParseDuration(val.s) IN
    IF val.t = "float64" /\ kind # "bool"
    THEN [err |-> "none", fv |-> [Zero EXCEPT !.n = val.n]]
    ELSE IF val.t = "string"
    THEN [err |-> p.err, fv |-> [Zero EXCEPT !.n = p.n]]
    ELSE [err |-> "source", fv |-> Zero]

\* fmt.Sprintf("%v", val) of a string or a float64 holding an integer.
Sprint(val) ==
    IF val.t = "string" THEN val.s
    ELSE CASE val.n = 8 -> "8" [] val.n = 9 -> "9" [] OTHER -> "?"

\* setField on a field that is not a slice.
setScalar(kind, val) ==
    CASE kind = "string" -> [err |-> "none", fv |-> [Zero EXCEPT !.s = Sprint(val)]]
      [] kind \in {"int", "duration", "uint", "float", "bool"} -> setNumber(kind, val)
      [] OTHER -> [err |-> "unsupported", fv |-> Zero]

\* setField: the switch on the destination's kind; the error it returns is
\* "unsupported" (ErrUnsupportedType), "parse" (a strconv error) or
\* "source" (a value of a type the kind does not take).
setField(kind, val) ==
    IF kind \in {"[]string", "[]int"}
    THEN LET in == normalizeSliceInput(val)
             ek == IF kind = "[]string" THEN "string" ELSE "int"
             e1 == setScalar(ek, in.items[1]) IN
         IF in.err # "none" THEN [err |-> in.err, fv |-> Zero]
         ELSE IF e1.err # "none" THEN [err |-> e1.err, fv |-> Zero]
         ELSE [err |-> "none", fv |-> [Zero EXCEPT !.l = <<e1.fv>>]]
    ELSE setScalar(kind, val)

\* A leaf field of the record type, nested ones flattened: the path and name
\* as key words, the kind, the default tag and the required tag.
Field(path, kind, def, req) ==
    [path |-> path, kind |-> kind, def |-> def, req |-> req]

\* The record types of the model:
\*   struct { Port <kind> `default:"8"`; DB struct { Name int `required` } }
\* with Port of every kind and with and without the two tags.
Schemas ==
    {<<Field(KeyPort, "int", def, FALSE), Field(KeyDbName, "int", "", req)>> :
        def \in {"", "8"}, req \in BOOLEAN}
    \cup {<<Field(KeyPort, kind, "", FALSE), Field(KeyDbName, "int", "", FALSE)>> :
            kind \in Kinds \ {"int"}}

\* extractDefaults: the default tag of every field that has one, under the
\* field's path.
extractDefaults(schema) ==
    [k \in {schema[i].path : i \in {j \in DOMAIN schema : schema[j].def # ""}} |->
        Str((CHOOSE f \in {schema[i] : i \in DOMAIN schema} : f.path = k).def)]

\* The providers: Defaults[T]() is DefaultsWithPrefix[T](""), Env() reads the
\* process environment, Map(kv) and File(path) hold a mapping of their own,
\* and a File whose content cannot be read or decoded fails.
DefaultsWithPrefix(prefix) ==
    [kind |-> "defaults", prefix |-> prefix, kv |-> NoValues, fails |-> FALSE]
Defaults == DefaultsWithPrefix(<<>>)
Env == [kind |-> "env", prefix |-> <<>>, kv |-> NoValues, fails |-> FALSE]
Map(kv) == [kind |-> "map", prefix |-> <<>>, kv |-> kv, fails |-> FALSE]
File(kv) == [kind |-> "file", prefix |-> <<>>, kv |-> kv, fails |-> FALSE]
BadFile == [kind |-> "file", prefix |-> <<>>, kv |-> NoValues, fails |-> TRUE]

\* PrefixAware(): envProvider and defaultsProvider return true, mapProvider
\* returns false and fileProvider does not have the method.
PrefixAware(p) == p.kind \in {"env", "defaults"}

\* Provider.Values of each provider, for the record type schema and the
\* process environment environ.
Values(p, schema, environ) ==
    CASE p.fails -> [err |-> "provider", values |-> NoValues]
      [] p.kind = "defaults" /\ ~p.fails ->
           [err |-> "none",
            values |-> IF p.prefix = <<>> THEN extractDefaults(schema)
                       ELSE applyPrefix(extractDefaults(schema), p.prefix)]
      [] p.kind = "env" /\ ~p.fails -> [err |-> "none", values |-> environ]
      [] OTHER -> [err |-> "none", values |-> p.kv]

\* The mappings of the model's Map providers (strings only) and File
\* providers (a JSON null, a JSON number), and the process environments.
MapKVs ==
    {One(KeyPort, Str(s)) : s \in {"", "x", "1", "2", "8", "9"}}
    \cup {One(KeyDbName, Str("8")),
          Merge(One(KeyPort, Str("x")), One(KeyDbName, Str("x")))}
FileKVs == {One(KeyPort, Nil), One(KeyPort, Float(8))}
Environs == {NoValues, One(KeyPort, Str("9")), One(KeyAppPort, Str("9"))}
ProviderSet ==
    {Defaults, Env, BadFile} \cup {Map(kv) : kv \in MapKVs}
    \cup {File(kv) : kv \in FileKVs}
\* The lists WithProvider can build, up to MaxProviders long.
ProviderLists ==
    UNION {[1..n -> ProviderSet] : n \in 0..MaxProviders}

\* No error, and an *Error of each kind with its Field; cause is what the
\* wrapped message says of the underlying error.
NoErr == [kind |-> "none", field |-> <<>>, cause |-> "none"]
Err(kind, field, cause) == [kind |-> kind, field |-> field, cause |-> cause]

\* No resolution pass is being followed.
NoPass == [pc |-> "none"]
\* A pass about to start: the options and the record type it is called with.
NewPass(prefix, providers, schema, environ) ==
    [pc |-> "prepare", prefix |-> prefix, given |-> providers,
     providers |-> providers, schema |-> schema, environ |-> environ,
     i |-> 1, values |-> NoValues, fi |-> 1,
     cfg |-> [j \in DOMAIN schema |-> Zero],
     ran |-> <<>>, err |-> NoErr, ok |-> FALSE]

\* ------------------------------------------------------------- key derivation
\* A string is the sequence of its runes, each a one-character string.
LowerAZ == <<"a", "b", "c", "d", "e", "f", "g", "h", "i", "j", "k", "l", "m",
             "n", "o", "p", "q", "r", "s", "t", "u", "v", "w", "x", "y", "z">>
UpperAZ == <<"A", "B", "C", "D", "E", "F", "G", "H", "I", "J", "K", "L", "M",
             "N", "O", "P", "Q", "R", "S", "T", "U", "V", "W", "X", "Y", "Z">>
\* r >= 'a' && r <= 'z', and r >= 'A' && r <= 'Z'.
IsLowerAZ(r) == \E n \in DOMAIN LowerAZ : LowerAZ[n] = r
IsUpperAZ(r) == \E n \in DOMAIN UpperAZ : UpperAZ[n] = r

\* strings.ToUpper on letters, digits and "_": a lowercase letter becomes
\* its capital, every other rune stays.
ToUpper(s) ==
    [n \in DOMAIN s |->
        IF IsLowerAZ(s[n])
        THEN UpperAZ[CHOOSE m \in DOMAIN LowerAZ : LowerAZ[m] = s[n]]
        ELSE s[n]]

\* toScreamingSnake's loop body at the n-th rune (the first is 1): whether
\* b.WriteByte('_') runs before the rune is written.
WritesUnderscore(runes, n) ==
    /\ n > 1
    /\ IsUpperAZ(runes[n])
    /\ IF IsLowerAZ(runes[n - 1]) THEN TRUE
       ELSE IF n + 1 <= Len(runes) THEN IsLowerAZ(runes[n + 1])
       ELSE FALSE

\* toScreamingSnake's builder after the first n runes.
RECURSIVE Builder(_, _)
Builder(runes, n) ==
    IF n = 0 THEN <<>>
    ELSE Builder(runes, n - 1)
         \o (IF WritesUnderscore(runes, n) THEN <<"_">> ELSE <<>>)
         \o <<runes[n]>>

\* Mutant: the builder's content is returned as it is.
toScreamingSnakeNoUpper(s) == Builder(s, Len(s))

\* toScreamingSnake: strings.ToUpper of what the loop built.
toScreamingSnake(s) == ToUpper(Builder(s, Len(s)))

\* The names of the model: every string of up to MaxNameLen runes over a
\* lowercase letter, two capitals, a digit and the underscore, and the four
\* names of the package's own test.
NameRunes == {"a", "A", "B", "2", "_"}
Names ==
    UNION {[1..n -> NameRunes] : n \in 0..MaxNameLen}
    \cup {<<"P", "o", "r", "t">>,
          <<"D", "a", "t", "a", "b", "a", "s", "e", "U", "R", "L">>,
          <<"H", "T", "T", "P", "S", "e", "r", "v", "e", "r">>,
          <<"J", "W", "T", "S", "e", "c", "r", "e", "t">>}

\* No key derivation is being followed.
NoKey == [pc |-> "none", s |-> <<>>, key |-> <<>>, again |-> <<>>]

\* ------------------------------------------------------------- construction
\* NewLoader: nothing held, version 0, not watching; the options are any of
\* the combinations a caller can pass.
InitLoader ==
    /\ config = NoCfg
    /\ version = 0
    /\ stop = 0
    /\ isWatching = FALSE
    /\ mu = NoHolder
    /\ wgCount = 0
    /\ wgWaiters = 0
    /\ wgBlocked = {}
    /\ stopClosed = {}
    /\ pc = [c \in Callers |-> "idle"]
    /\ loc = [c \in Callers |-> NoLoc]
    /\ tpc = [k \in Cycles |-> "unborn"]
    /\ lastMod = [k \in Cycles |-> -1]
    /\ tloc = [k \in Cycles |-> NoTLoc]
    /\ cbPending = {}
    /\ rpc = "idle"
    /\ rInst = NoCfg
    /\ mtime = 0
    /\ src \in scn.raws
    /\ statFails = FALSE
    /\ nalloc = 0
    /\ spawned = 0
    /\ panicked = FALSE
    /\ emit = {}
    /\ hist = <<>>
    /\ stopReturned = {}
    /\ failed = {}
    /\ quiet = FALSE
    /\ cbRun = [c \in Callers |-> NoCb]
    /\ unretried = {}
    /\ origin = <<>>

\* Two callers racing on a Loader built with a watch target (or without one,
\* or with a zero interval) and both callbacks, over a source that holds an
\* empty string or one of two valid values.
Init ==
    /\ scn = [callers |-> Callers, raws |-> {"", "8", "9"}, history |-> FALSE,
             handlers |-> {}, track |-> FALSE]
    /\ watchPath \in BOOLEAN
    /\ watchEvery \in {0, 1}
    /\ onReload = TRUE
    /\ onReloadError = TRUE
    /\ InitLoader
    /\ rp = NoPass
    /\ kd = NoKey

\* The positions of a caller inside Load() and inside StartWatching().
LoadPcs == {"ld_resolve", "ld_incver"}
StartPcs == {"sw_lock", "sw_resolve", "sw_incver", "sw_logerr", "sw_interval",
             "sw_add"}
\* The positions at which loadInternal is running.
ResolvePcs == {"ld_resolve", "sw_resolve"}

\* Mutant: Get() and Version() read without taking the read lock.
CanRLockUnguarded == TRUE

\* sync.RWMutex: Lock() needs the lock free.
CanLock == mu = NoHolder

\* sync.RWMutex: RLock() needs no writer.
CanRLock == mu = NoHolder

\* The goroutines that can take a reload callback whose body calls the
\* Loader: the ones the program has for that and that are executing none.
FreeHandlers == {c \in scn.handlers : cbRun[c] = NoCb /\ pc[c] = "idle"}
\* Goroutine c calls the Loader's methods: one of the program's own
\* callers at any time, a callback's goroutine while its callback runs.
MayCall(c) == c \in scn.callers \/ cbRun[c] # NoCb

\* ------------------------------------------------------------- Load
\* Load: l.mu.Lock().
LoadLock(c) ==
    /\ ~panicked
    /\ UNCHANGED <<scn, rp, kd, cbRun, failed, unretried, origin>>
    /\ MayCall(c)
    /\ pc[c] = "idle"
    /\ CanLock
    /\ mu' = ByCaller(c)
    /\ pc' = [pc EXCEPT ![c] = "ld_resolve"]
    /\ quiet' = FALSE
    /\ emit' = {}
    /\ UNCHANGED <<config, version, stop, isWatching, wgVars, stopClosed,
                   optVars, loc, taskVars, cbPending, readerVars, envVars,
                   nalloc, spawned, panicked, hist, stopReturned>>

\* Mutant: Load() keeps the held instance when the resolved content equals it.
LoadResolveSkipsUnchanged(c) ==
    /\ ~panicked
    /\ UNCHANGED <<scn, rp, kd, cbRun, failed, unretried, origin>>
    /\ pc[c] = "ld_resolve"
    /\ LET r == loadInternal(src) IN
       IF r.err # "none"
       THEN /\ mu' = NoHolder
            /\ pc' = [pc EXCEPT ![c] = "idle"]
            /\ emit' = {[Ev0 EXCEPT !.ev = "Load.err", !.c = c, !.err = r.err]}
            /\ UNCHANGED <<config, loc, nalloc>>
       ELSE IF ~IsNil(config) /\ config.port = r.port
       THEN /\ mu' = NoHolder
            /\ pc' = [pc EXCEPT ![c] = "idle"]
            /\ emit' = {[Ev0 EXCEPT !.ev = "Load.ok", !.c = c, !.a = config]}
            /\ UNCHANGED <<config, loc, nalloc>>
       ELSE /\ nalloc < MaxAlloc
            /\ config' = NewCfg(r.port)
            /\ loc' = [loc EXCEPT ![c].cfg = NewCfg(r.port)]
            /\ nalloc' = nalloc + 1
            /\ pc' = [pc EXCEPT ![c] = "ld_incver"]
            /\ emit' = {}
            /\ UNCHANGED mu
    /\ UNCHANGED <<version, stop, isWatching, wgVars, stopClosed, optVars,
                   taskVars, cbPending, readerVars, envVars, spawned, panicked,
                   histVars>>

\* loadLocked: loadInternal returns; an error is returned as it is (the
\* deferred Unlock runs), a record is stored in l.config.
LoadResolve(c) ==
    /\ ~panicked
    /\ UNCHANGED <<scn, rp, kd, cbRun, failed, unretried, origin>>
    /\ pc[c] = "ld_resolve"
    /\ LET r == loadInternal(src) IN
       IF r.err # "none"
       THEN /\ mu' = NoHolder
            /\ pc' = [pc EXCEPT ![c] = "idle"]
            /\ emit' = {[Ev0 EXCEPT !.ev = "Load.err", !.c = c, !.err = r.err]}
            /\ UNCHANGED <<config, loc, nalloc>>
       ELSE /\ nalloc < MaxAlloc
            /\ config' = NewCfg(r.port)
            /\ loc' = [loc EXCEPT ![c].cfg = NewCfg(r.port)]
            /\ nalloc' = nalloc + 1
            /\ pc' = [pc EXCEPT ![c] = "ld_incver"]
            /\ emit' = {}
            /\ UNCHANGED mu
    /\ UNCHANGED <<version, stop, isWatching, wgVars, stopClosed, optVars,
                   taskVars, cbPending, readerVars, envVars, spawned, panicked,
                   histVars>>

\* Mutant: Load() reports its swap to the reload callback as reloadConfig does.
LoadIncVerTriggers(c) ==
    /\ ~panicked
    /\ UNCHANGED <<scn, rp, kd, cbRun, failed, unretried>>
    /\ pc[c] = "ld_incver"
    /\ version' = version + 1
    /\ cbPending' = cbPending \cup
          (IF onReload THEN {[k |-> 0, old |-> NoCfg, new |-> loc[c].cfg]} ELSE {})
    /\ origin' = IF scn.track THEN Append(origin, "Load") ELSE origin
    /\ hist' = Append(hist, loc[c].cfg)
    /\ mu' = NoHolder
    /\ pc' = [pc EXCEPT ![c] = "idle"]
    /\ loc' = [loc EXCEPT ![c] = NoLoc]
    /\ emit' = {[Ev0 EXCEPT !.ev = "Load.ok", !.c = c, !.a = loc[c].cfg]}
    /\ UNCHANGED <<config, stop, isWatching, wgVars, stopClosed, optVars,
                   taskVars, readerVars, envVars, nalloc, spawned,
                   panicked, stopReturned, quiet>>

\* loadLocked: l.version++, return cfg; Load's deferred Unlock.
LoadIncVer(c) ==
    /\ ~panicked
    /\ UNCHANGED <<scn, rp, kd, cbRun, failed, unretried>>
    /\ pc[c] = "ld_incver"
    /\ version' = version + 1
    /\ origin' = IF scn.track THEN Append(origin, "Load") ELSE origin
    /\ hist' = Append(hist, loc[c].cfg)
    /\ mu' = NoHolder
    /\ pc' = [pc EXCEPT ![c] = "idle"]
    /\ loc' = [loc EXCEPT ![c] = NoLoc]
    /\ emit' = {[Ev0 EXCEPT !.ev = "Load.ok", !.c = c, !.a = loc[c].cfg]}
    /\ UNCHANGED <<config, stop, isWatching, wgVars, stopClosed, optVars,
                   taskVars, cbPending, readerVars, envVars, nalloc, spawned,
                   panicked, stopReturned, quiet>>

\* ------------------------------------------------------------- Get, Version
\* Get: RLock, return l.config, RUnlock.
ReaderGet ==
    /\ ~panicked
    /\ UNCHANGED <<scn, rp, kd, cbRun, failed, unretried, origin>>
    /\ rpc = "idle"
    /\ CanRLock
    /\ rInst' = config
    /\ rpc' = "got"
    /\ emit' = {[Ev0 EXCEPT !.ev = "Get", !.a = config, !.n = version]}
    /\ UNCHANGED <<loaderVars, wgVars, stopClosed, optVars, callerVars,
                   taskVars, cbPending, envVars, nalloc, spawned, panicked,
                   histVars>>

\* Version: RLock, return l.version, RUnlock; the reader now has both.
ReaderVersion ==
    /\ ~panicked
    /\ UNCHANGED <<scn, rp, kd, cbRun, failed, unretried, origin>>
    /\ rpc = "got"
    /\ CanRLock
    /\ rInst' = NoCfg
    /\ rpc' = "idle"
    /\ emit' = {[Ev0 EXCEPT !.ev = "Version", !.a = config, !.n = version],
                [Ev0 EXCEPT !.ev = "Read", !.a = rInst, !.n = version]}
    /\ UNCHANGED <<loaderVars, wgVars, stopClosed, optVars, callerVars,
                   taskVars, cbPending, envVars, nalloc, spawned, panicked,
                   histVars>>

\* ------------------------------------------------------------- environment
\* The watch file is rewritten: its modification time advances.
FileModify(raw) ==
    /\ ~panicked
    /\ UNCHANGED <<scn, rp, kd, cbRun, failed, unretried, origin>>
    /\ raw \in scn.raws
    /\ mtime < MaxMTime
    /\ mtime' = mtime + 1
    /\ src' = raw
    /\ emit' = {}
    /\ UNCHANGED <<loaderVars, wgVars, stopClosed, optVars, callerVars,
                   taskVars, cbPending, readerVars, statFails, nalloc, spawned,
                   panicked, histVars>>

\* A source other than the watch file changes (the process environment).
SourceChange(raw) ==
    /\ ~panicked
    /\ UNCHANGED <<scn, rp, kd, cbRun, failed, unretried, origin>>
    /\ raw \in scn.raws
    /\ raw # src
    /\ src' = raw
    /\ emit' = {}
    /\ UNCHANGED <<loaderVars, wgVars, stopClosed, optVars, callerVars,
                   taskVars, cbPending, readerVars, mtime, statFails, nalloc,
                   spawned, panicked, histVars>>

\* The watch file's metadata becomes unreadable, or readable again.
StatFlip ==
    /\ ~panicked
    /\ UNCHANGED <<scn, rp, kd, cbRun, failed, unretried, origin>>
    /\ statFails' = ~statFails
    /\ emit' = {}
    /\ UNCHANGED <<loaderVars, wgVars, stopClosed, optVars, callerVars,
                   taskVars, cbPending, readerVars, mtime, src, nalloc,
                   spawned, panicked, histVars>>

\* ------------------------------------------------------------- StartWatching
\* StartWatching is called; it will wait for l.mu. The call remembers
\* whether the Loader was watching when it began.
StartCall(c) ==
    /\ ~panicked
    /\ UNCHANGED <<scn, rp, kd, cbRun, failed, unretried, origin>>
    /\ MayCall(c)
    /\ pc[c] = "idle"
    /\ pc' = [pc EXCEPT ![c] = "sw_lock"]
    /\ quiet' = FALSE
    /\ loc' = [loc EXCEPT ![c].sawIdle = ~isWatching]
    /\ emit' = {}
    /\ UNCHANGED <<loaderVars, wgVars, stopClosed, optVars, taskVars,
                   cbPending, readerVars, envVars, nalloc, spawned, panicked,
                   hist, stopReturned>>

\* Mutant: StartWatching does not look at o.watchPath.
StartEnterIgnoresNoPath(c) ==
    /\ ~panicked
    /\ UNCHANGED <<scn, rp, kd, cbRun, failed, unretried, origin>>
    /\ pc[c] = "sw_lock"
    /\ CanLock
    /\ IF isWatching
       THEN /\ pc' = [pc EXCEPT ![c] = "idle"]
            /\ loc' = [loc EXCEPT ![c] = NoLoc]
            /\ emit' = {[Ev0 EXCEPT !.ev = "Start.noop", !.c = c,
                                    !.n = IF loc[c].sawIdle THEN 1 ELSE 0]}
            /\ UNCHANGED mu
       ELSE IF FALSE
       THEN /\ pc' = [pc EXCEPT ![c] = "idle"]
            /\ loc' = [loc EXCEPT ![c] = NoLoc]
            /\ emit' = {[Ev0 EXCEPT !.ev = "Start.nopath", !.c = c]}
            /\ UNCHANGED mu
       ELSE /\ mu' = ByCaller(c)
            /\ pc' = [pc EXCEPT ![c] =
                        IF IsNil(config) THEN "sw_resolve" ELSE "sw_interval"]
            /\ emit' = {}
            /\ UNCHANGED loc
    /\ UNCHANGED <<config, version, stop, isWatching, wgVars, stopClosed,
                   optVars, taskVars, cbPending, readerVars, envVars,
                   nalloc, spawned, panicked, histVars>>

\* Mutant: StartWatching does not look at l.isWatching.
StartEnterNoWatchingCheck(c) ==
    /\ ~panicked
    /\ UNCHANGED <<scn, rp, kd, cbRun, failed, unretried, origin>>
    /\ pc[c] = "sw_lock"
    /\ CanLock
    /\ IF FALSE
       THEN /\ pc' = [pc EXCEPT ![c] = "idle"]
            /\ loc' = [loc EXCEPT ![c] = NoLoc]
            /\ emit' = {[Ev0 EXCEPT !.ev = "Start.noop", !.c = c,
                                    !.n = IF loc[c].sawIdle THEN 1 ELSE 0]}
            /\ UNCHANGED mu
       ELSE IF ~watchPath
       THEN /\ pc' = [pc EXCEPT ![c] = "idle"]
            /\ loc' = [loc EXCEPT ![c] = NoLoc]
            /\ emit' = {[Ev0 EXCEPT !.ev = "Start.nopath", !.c = c]}
            /\ UNCHANGED mu
       ELSE /\ mu' = ByCaller(c)
            /\ pc' = [pc EXCEPT ![c] =
                        IF IsNil(config) THEN "sw_resolve" ELSE "sw_interval"]
            /\ emit' = {}
            /\ UNCHANGED loc
    /\ UNCHANGED <<config, version, stop, isWatching, wgVars, stopClosed,
                   optVars, taskVars, cbPending, readerVars, envVars,
                   nalloc, spawned, panicked, histVars>>

\* StartWatching: l.mu.Lock(); already watching, or no watch path: return
\* nil; otherwise go on to ensureConfigLoaded with the lock held.
StartEnter(c) ==
    /\ ~panicked
    /\ UNCHANGED <<scn, rp, kd, cbRun, failed, unretried, origin>>
    /\ pc[c] = "sw_lock"
    /\ CanLock
    /\ IF isWatching
       THEN /\ pc' = [pc EXCEPT ![c] = "idle"]
            /\ loc' = [loc EXCEPT ![c] = NoLoc]
            /\ emit' = {[Ev0 EXCEPT !.ev = "Start.noop", !.c = c,
                                    !.n = IF loc[c].sawIdle THEN 1 ELSE 0]}
            /\ UNCHANGED mu
       ELSE IF ~watchPath
       THEN /\ pc' = [pc EXCEPT ![c] = "idle"]
            /\ loc' = [loc EXCEPT ![c] = NoLoc]
            /\ emit' = {[Ev0 EXCEPT !.ev = "Start.nopath", !.c = c]}
            /\ UNCHANGED mu
       ELSE /\ mu' = ByCaller(c)
            /\ pc' = [pc EXCEPT ![c] =
                        IF IsNil(config) THEN "sw_resolve" ELSE "sw_interval"]
            /\ emit' = {}
            /\ UNCHANGED loc
    /\ UNCHANGED <<config, version, stop, isWatching, wgVars, stopClosed,
                   optVars, taskVars, cbPending, readerVars, envVars,
                   nalloc, spawned, panicked, histVars>>

\* ensureConfigLoaded: loadLocked's loadInternal returns; a record is stored
\* in l.config, an error goes to logReloadError.
StartResolve(c) ==
    /\ ~panicked
    /\ UNCHANGED <<scn, rp, kd, cbRun, failed, unretried, origin>>
    /\ pc[c] = "sw_resolve"
    /\ LET r == loadInternal(src) IN
       IF r.err # "none"
       THEN /\ pc' = [pc EXCEPT ![c] = "sw_logerr"]
            /\ loc' = [loc EXCEPT ![c].err = r.err]
            /\ UNCHANGED <<config, nalloc>>
       ELSE /\ nalloc < MaxAlloc
            /\ config' = NewCfg(r.port)
            /\ loc' = [loc EXCEPT ![c].cfg = NewCfg(r.port)]
            /\ nalloc' = nalloc + 1
            /\ pc' = [pc EXCEPT ![c] = "sw_incver"]
    /\ emit' = {}
    /\ UNCHANGED <<version, stop, isWatching, mu, wgVars, stopClosed, optVars,
                   taskVars, cbPending, readerVars, envVars, spawned, panicked,
                   histVars>>

\* ensureConfigLoaded: loadLocked's l.version++, then back in StartWatching.
StartIncVer(c) ==
    /\ ~panicked
    /\ UNCHANGED <<scn, rp, kd, cbRun, failed, unretried>>
    /\ pc[c] = "sw_incver"
    /\ version' = version + 1
    /\ origin' = IF scn.track THEN Append(origin, "StartWatching") ELSE origin
    /\ hist' = Append(hist, loc[c].cfg)
    /\ pc' = [pc EXCEPT ![c] = "sw_interval"]
    /\ loc' = [loc EXCEPT ![c].cfg = NoCfg]
    /\ emit' = {}
    /\ UNCHANGED <<config, stop, isWatching, mu, wgVars, stopClosed, optVars,
                   taskVars, cbPending, readerVars, envVars, nalloc, spawned,
                   panicked, stopReturned, quiet>>

\* Mutant: logReloadError calls the error callback and not the logger.
ReloadErrorCallsNoLogger(c, k, err) ==
    IF onReloadError
    THEN {[Ev0 EXCEPT !.ev = "onReloadError", !.c = c, !.k = k, !.err = err]}
    ELSE {}

\* The calls logReloadError makes: the logger, and the error callback if set.
ReloadErrorCalls(c, k, err) ==
    {[Ev0 EXCEPT !.ev = "logger.Printf", !.c = c, !.k = k, !.err = err]}
    \cup (IF onReloadError
          THEN {[Ev0 EXCEPT !.ev = "onReloadError", !.c = c, !.k = k, !.err = err]}
          ELSE {})

\* Mutant: ensureConfigLoaded returns the error without reporting it.
StartLogErrNoReport(c) ==
    /\ ~panicked
    /\ UNCHANGED <<scn, rp, kd, cbRun, failed, unretried, origin>>
    /\ pc[c] = "sw_logerr"
    /\ mu' = NoHolder
    /\ pc' = [pc EXCEPT ![c] = "idle"]
    /\ loc' = [loc EXCEPT ![c] = NoLoc]
    /\ emit' = {[Ev0 EXCEPT !.ev = "Start.err", !.c = c, !.err = loc[c].err]}
    /\ UNCHANGED <<config, version, stop, isWatching, wgVars, stopClosed,
                   optVars, taskVars, cbPending, readerVars, envVars, nalloc,
                   spawned, panicked, histVars>>

\* ensureConfigLoaded: logReloadError("watch load failed") has run with the
\* lock held, the error callback having returned (when its body called the
\* Loader, that call has taken the lock and returned); StartWatching returns
\* the error.
StartLogErr(c) ==
    /\ ~panicked
    /\ UNCHANGED <<scn, rp, kd, cbRun, failed, unretried, origin>>
    /\ (pc[c] = "sw_logerr" \/ (pc[c] = "sw_ecb_lock" /\ CanRLock))
    /\ mu' = NoHolder
    /\ pc' = [pc EXCEPT ![c] = "idle"]
    /\ loc' = [loc EXCEPT ![c] = NoLoc]
    /\ emit' = ReloadErrorCalls(c, 0, loc[c].err)
               \cup {[Ev0 EXCEPT !.ev = "Start.err", !.c = c, !.err = loc[c].err]}
    /\ UNCHANGED <<config, version, stop, isWatching, wgVars, stopClosed,
                   optVars, taskVars, cbPending, readerVars, envVars, nalloc,
                   spawned, panicked, histVars>>

\* StartWatching: a non-positive interval is logged and returned; otherwise
\* l.stop = make(chan struct{}) and l.watchWG = sync.WaitGroup{}.
StartInterval(c) ==
    /\ ~panicked
    /\ UNCHANGED <<scn, rp, kd, cbRun, failed, unretried, origin>>
    /\ pc[c] = "sw_interval"
    /\ IF watchEvery <= 0
       THEN /\ mu' = NoHolder
            /\ pc' = [pc EXCEPT ![c] = "idle"]
            /\ loc' = [loc EXCEPT ![c] = NoLoc]
            /\ emit' = {[Ev0 EXCEPT !.ev = "logger.Printf", !.c = c, !.err = "interval"],
                        [Ev0 EXCEPT !.ev = "Start.err", !.c = c, !.err = "interval"]}
            /\ UNCHANGED <<stop, wgCount, wgWaiters>>
       ELSE /\ spawned < MaxCycles
            /\ stop' = spawned + 1
            /\ wgCount' = 0
            /\ wgWaiters' = 0
            /\ pc' = [pc EXCEPT ![c] = "sw_add"]
            /\ emit' = {}
            /\ UNCHANGED <<mu, loc>>
    /\ UNCHANGED <<config, version, isWatching, wgBlocked, stopClosed, optVars,
                   taskVars, cbPending, readerVars, envVars, nalloc,
                   spawned, panicked, histVars>>

\* StartWatching: l.watchWG.Add(1), which panics when it raises the counter
\* from zero while waiters are registered; then l.isWatching = true,
\* go watcher.run(l.stop, &l.watchWG), return nil and the deferred Unlock.
StartSpawn(c) ==
    /\ ~panicked
    /\ UNCHANGED <<scn, rp, kd, cbRun, failed, unretried, origin>>
    /\ pc[c] = "sw_add"
    /\ wgCount' = wgCount + 1
    /\ panicked' = (wgWaiters # 0 /\ wgCount + 1 = 1)
    /\ isWatching' = TRUE
    /\ tpc' = [tpc EXCEPT ![stop] = "baseline"]
    /\ spawned' = spawned + 1
    /\ mu' = NoHolder
    /\ pc' = [pc EXCEPT ![c] = "idle"]
    /\ loc' = [loc EXCEPT ![c] = NoLoc]
    /\ emit' = {[Ev0 EXCEPT !.ev = "Start.ok", !.c = c, !.k = stop,
                            !.n = IF loc[c].sawIdle THEN 1 ELSE 0]}
    /\ UNCHANGED <<config, version, stop, wgWaiters, wgBlocked, stopClosed,
                   optVars, lastMod, tloc, cbPending, readerVars, envVars,
                   nalloc, histVars>>

\* ------------------------------------------------------------- StopWatching
\* What a StopWatching() that stopped cycle k records when it returns.
StopReturns(c, k) ==
    /\ pc' = [pc EXCEPT ![c] = "idle"]
    /\ loc' = [loc EXCEPT ![c] = NoLoc]
    /\ stopReturned' = stopReturned \cup {k}
    /\ quiet' = (~isWatching /\ \A d \in Callers \ {c} : pc[d] = "idle")
    /\ emit' = {[Ev0 EXCEPT !.ev = "Stop.ok", !.c = c, !.k = k]}

\* StopWatching: under the lock, return if not watching; otherwise take
\* l.stop and &l.watchWG, clear l.stop and l.isWatching, and unlock.
StopEnter(c) ==
    /\ ~panicked
    /\ UNCHANGED <<scn, rp, kd, cbRun, failed, unretried, origin>>
    /\ MayCall(c)
    /\ pc[c] = "idle"
    /\ CanLock
    /\ IF ~isWatching
       THEN /\ emit' = {[Ev0 EXCEPT !.ev = "Stop.noop", !.c = c]}
            /\ UNCHANGED <<stop, isWatching, pc, loc>>
       ELSE /\ loc' = [loc EXCEPT ![c].stop = stop]
            /\ stop' = 0
            /\ isWatching' = FALSE
            /\ pc' = [pc EXCEPT ![c] = "st_close"]
            /\ emit' = {}
    /\ UNCHANGED <<config, version, mu, wgVars, stopClosed, optVars, taskVars,
                   cbPending, readerVars, envVars, nalloc, spawned, panicked,
                   hist, stopReturned, quiet>>

\* StopWatching: close(stop).
StopClose(c) ==
    /\ ~panicked
    /\ UNCHANGED <<scn, rp, kd, cbRun, failed, unretried, origin>>
    /\ pc[c] = "st_close"
    /\ stopClosed' = IF loc[c].stop # 0 THEN stopClosed \cup {loc[c].stop}
                     ELSE stopClosed
    /\ pc' = [pc EXCEPT ![c] = "st_wait"]
    /\ emit' = {}
    /\ UNCHANGED <<loaderVars, wgVars, optVars, loc, taskVars, cbPending,
                   readerVars, envVars, nalloc, spawned, panicked, histVars>>

\* StopWatching: wg.Wait() returns at once when the counter is zero,
\* otherwise it registers as a waiter and parks.
StopWait(c) ==
    /\ ~panicked
    /\ UNCHANGED <<scn, rp, kd, cbRun, failed, unretried, origin>>
    /\ pc[c] = "st_wait"
    /\ IF wgCount = 0
       THEN /\ StopReturns(c, loc[c].stop)
            /\ UNCHANGED <<wgWaiters, wgBlocked>>
       ELSE /\ wgWaiters' = wgWaiters + 1
            /\ wgBlocked' = wgBlocked \cup {c}
            /\ pc' = [pc EXCEPT ![c] = "st_blocked"]
            /\ emit' = {}
            /\ UNCHANGED <<loc, stopReturned, quiet>>
    /\ UNCHANGED <<loaderVars, wgCount, stopClosed, optVars, taskVars,
                   cbPending, readerVars, envVars, nalloc, spawned, panicked,
                   hist>>

\* StopWatching: a woken Wait() panics if the WaitGroup is in use again,
\* otherwise it returns and so does StopWatching.
StopWoken(c) ==
    /\ ~panicked
    /\ UNCHANGED <<scn, rp, kd, cbRun, failed, unretried, origin>>
    /\ pc[c] = "st_woken"
    /\ IF wgCount # 0 \/ wgWaiters # 0
       THEN /\ panicked' = TRUE
            /\ emit' = {}
            /\ UNCHANGED <<pc, loc, stopReturned, quiet>>
       ELSE /\ StopReturns(c, loc[c].stop)
            /\ UNCHANGED panicked
    /\ UNCHANGED <<loaderVars, wgVars, stopClosed, optVars, taskVars,
                   cbPending, readerVars, envVars, nalloc, spawned, hist>>

\* ------------------------------------------------------------- watchLoop
\* run: lastMod := w.modTime(), the zero time if the stat fails; the ticker
\* is created.
TaskBaseline(k) ==
    /\ ~panicked
    /\ UNCHANGED <<scn, rp, kd, cbRun, failed, unretried, origin>>
    /\ tpc[k] = "baseline"
    /\ lastMod' = [lastMod EXCEPT ![k] = IF statFails THEN -1 ELSE mtime]
    /\ tpc' = [tpc EXCEPT ![k] = "select"]
    /\ emit' = {}
    /\ UNCHANGED <<loaderVars, wgVars, stopClosed, optVars, callerVars, tloc,
                   cbPending, readerVars, envVars, nalloc, spawned, panicked,
                   histVars>>

\* run: case <-stop: return; the deferred wg.Done() panics on a negative
\* counter and wakes the registered waiters when the counter reaches zero.
TaskStop(k) ==
    /\ ~panicked
    /\ UNCHANGED <<scn, rp, kd, cbRun, origin>>
    /\ tpc[k] = "select"
    /\ k \in stopClosed
    /\ tpc' = [tpc EXCEPT ![k] = "exited"]
    /\ lastMod' = [lastMod EXCEPT ![k] = -1]
    /\ failed' = failed \ {k}
    /\ unretried' = unretried \ {k}
    /\ wgCount' = wgCount - 1
    /\ panicked' = (wgCount - 1 < 0)
    /\ emit' = {}
    /\ IF wgCount - 1 = 0 /\ wgWaiters > 0
       THEN \E W \in SUBSET wgBlocked :
               /\ Cardinality(W) = wgWaiters
               /\ wgBlocked' = wgBlocked \ W
               /\ wgWaiters' = 0
               /\ pc' = [c \in Callers |-> IF c \in W THEN "st_woken" ELSE pc[c]]
       ELSE UNCHANGED <<wgWaiters, wgBlocked, pc>>
    /\ UNCHANGED <<loaderVars, stopClosed, optVars, loc, tloc, cbPending,
                   readerVars, envVars, nalloc, spawned, hist, stopReturned,
                   quiet>>

\* run: case <-ticker.C: a failed stat or a modification time not after
\* lastMod continues the loop; otherwise lastMod advances and reloadConfig
\* is called.
TaskTick(k) ==
    /\ ~panicked
    /\ UNCHANGED <<scn, rp, kd, cbRun, failed, unretried, origin>>
    /\ tpc[k] = "select"
    /\ IF statFails \/ ~(mtime > lastMod[k])
       THEN UNCHANGED <<tpc, lastMod>>
       ELSE /\ lastMod' = [lastMod EXCEPT ![k] = mtime]
            /\ tpc' = [tpc EXCEPT ![k] = "rc_lock"]
    /\ emit' = {}
    /\ UNCHANGED <<loaderVars, wgVars, stopClosed, optVars, callerVars, tloc,
                   cbPending, readerVars, envVars, nalloc, spawned, panicked,
                   histVars>>

\* reloadConfig: l.mu.Lock(), oldConfig := l.config.
ReloadLock(k) ==
    /\ ~panicked
    /\ UNCHANGED <<scn, rp, kd, cbRun, failed, unretried, origin>>
    /\ tpc[k] = "rc_lock"
    /\ CanLock
    /\ mu' = ByTask(k)
    /\ tloc' = [tloc EXCEPT ![k].old = config]
    /\ tpc' = [tpc EXCEPT ![k] = "rc_resolve"]
    /\ emit' = {}
    /\ UNCHANGED <<config, version, stop, isWatching, wgVars, stopClosed,
                   optVars, callerVars, lastMod, cbPending, readerVars, envVars,
                   nalloc, spawned, panicked, histVars>>

\* reloadConfig: loadInternal returns; an error goes to logReloadError, a
\* record deep-equal to oldConfig ends the reload, any other is stored in
\* l.config.
ReloadResolve(k) ==
    /\ ~panicked
    /\ UNCHANGED <<scn, rp, kd, cbRun, origin>>
    /\ tpc[k] = "rc_resolve"
    /\ LET r == loadInternal(src) IN
       IF r.err # "none"
       THEN /\ tpc' = [tpc EXCEPT ![k] = "rc_logerr"]
            /\ tloc' = [tloc EXCEPT ![k].err = r.err]
            /\ failed' = IF scn.history THEN failed \cup {k} ELSE failed
            /\ unretried' = IF scn.track THEN unretried \cup {k} ELSE unretried
            /\ UNCHANGED <<config, mu, nalloc>>
       ELSE IF DeepEqual(tloc[k].old, NewCfg(r.port))
       THEN /\ tpc' = [tpc EXCEPT ![k] = "select"]
            /\ tloc' = [tloc EXCEPT ![k] = NoTLoc]
            /\ mu' = NoHolder
            /\ unretried' = unretried \ {k}
            /\ UNCHANGED <<config, nalloc, failed>>
       ELSE /\ nalloc < MaxAlloc
            /\ config' = NewCfg(r.port)
            /\ tloc' = [tloc EXCEPT ![k].new = NewCfg(r.port)]
            /\ nalloc' = nalloc + 1
            /\ tpc' = [tpc EXCEPT ![k] = "rc_incver"]
            /\ unretried' = unretried \ {k}
            /\ UNCHANGED <<mu, failed>>
    /\ emit' = {}
    /\ UNCHANGED <<version, stop, isWatching, wgVars, stopClosed, optVars,
                   callerVars, lastMod, cbPending, readerVars, envVars, spawned,
                   panicked, hist, stopReturned,
                   quiet>>

\* triggerOnReload: go l.onReload(oldConfig, newConfig) when a callback is set.
triggerOnReload(k, old, new) ==
    IF onReload THEN {[k |-> k, old |-> old, new |-> new]} ELSE {}

\* Mutant: reloadConfig swaps the instance in and leaves the version as it is.
ReloadIncVerForgetsVersion(k) ==
    /\ ~panicked
    /\ UNCHANGED <<scn, rp, kd, cbRun, failed, unretried>>
    /\ tpc[k] = "rc_incver"
    /\ version' = version
    /\ origin' = IF scn.track THEN Append(origin, "reloadConfig") ELSE origin
    /\ hist' = Append(hist, tloc[k].new)
    /\ cbPending' = cbPending \cup triggerOnReload(k, tloc[k].old, tloc[k].new)
    /\ mu' = NoHolder
    /\ tpc' = [tpc EXCEPT ![k] = "select"]
    /\ tloc' = [tloc EXCEPT ![k] = NoTLoc]
    /\ emit' = {[Ev0 EXCEPT !.ev = "go onReload", !.k = k, !.a = cb.old, !.b = cb.new] :
                  cb \in triggerOnReload(k, tloc[k].old, tloc[k].new)}
    /\ UNCHANGED <<config, stop, isWatching, wgVars, stopClosed, optVars,
                   callerVars, lastMod, readerVars, envVars, nalloc, spawned,
                   panicked, stopReturned, quiet>>

\* reloadConfig: l.version++, triggerOnReload, the deferred Unlock.
ReloadIncVer(k) ==
    /\ ~panicked
    /\ UNCHANGED <<scn, rp, kd, cbRun, failed, unretried>>
    /\ tpc[k] = "rc_incver"
    /\ version' = version + 1
    /\ origin' = IF scn.track THEN Append(origin, "reloadConfig") ELSE origin
    /\ hist' = Append(hist, tloc[k].new)
    /\ cbPending' = cbPending \cup triggerOnReload(k, tloc[k].old, tloc[k].new)
    /\ mu' = NoHolder
    /\ tpc' = [tpc EXCEPT ![k] = "select"]
    /\ tloc' = [tloc EXCEPT ![k] = NoTLoc]
    /\ emit' = {[Ev0 EXCEPT !.ev = "go onReload", !.k = k, !.a = cb.old, !.b = cb.new] :
                  cb \in triggerOnReload(k, tloc[k].old, tloc[k].new)}
    /\ UNCHANGED <<config, stop, isWatching, wgVars, stopClosed, optVars,
                   callerVars, lastMod, readerVars, envVars, nalloc, spawned,
                   panicked, stopReturned, quiet>>

\* reloadConfig: logReloadError("reload failed") has run with the lock held,
\* the error callback having returned (when its body called the Loader, that
\* call has taken the lock and returned); return, the deferred Unlock.
ReloadLogErr(k) ==
    /\ ~panicked
    /\ UNCHANGED <<scn, rp, kd, cbRun, failed, unretried, origin>>
    /\ (tpc[k] = "rc_logerr" \/ (tpc[k] = "rc_ecb_lock" /\ CanRLock))
    /\ mu' = NoHolder
    /\ tpc' = [tpc EXCEPT ![k] = "select"]
    /\ tloc' = [tloc EXCEPT ![k] = NoTLoc]
    /\ emit' = ReloadErrorCalls("-", k, tloc[k].err)
    /\ UNCHANGED <<config, version, stop, isWatching, wgVars, stopClosed,
                   optVars, callerVars, lastMod, cbPending, readerVars, envVars,
                   nalloc, spawned, panicked, histVars>>

\* A goroutine started by triggerOnReload gets to run: onReload(old, new).
\* Its body calls the Loader when one of the program's handler goroutines
\* takes it, and does not otherwise.
CallbackRun(cb) ==
    /\ ~panicked
    /\ UNCHANGED <<scn, rp, kd, failed, unretried, origin>>
    /\ cb \in cbPending
    /\ cbPending' = cbPending \ {cb}
    /\ \E c \in {"-"} \cup FreeHandlers :
         cbRun' = IF c = "-" THEN cbRun ELSE [cbRun EXCEPT ![c] = cb]
    /\ emit' = {[Ev0 EXCEPT !.ev = "onReload", !.k = cb.k, !.a = cb.old, !.b = cb.new]}
    /\ UNCHANGED <<loaderVars, wgVars, stopClosed, optVars, callerVars,
                   taskVars, readerVars, envVars, nalloc, spawned, panicked,
                   histVars>>

\* ------------------------------------------------------------- callbacks that call the Loader
\* The body of a running reload callback calls Get() or Version(): RLock,
\* read, RUnlock.
CallbackRead(c) ==
    /\ ~panicked
    /\ UNCHANGED <<scn, rp, kd, cbRun, failed, unretried, origin>>
    /\ cbRun[c] # NoCb
    /\ pc[c] = "idle"
    /\ CanRLock
    /\ \E ev \in {"Get", "Version"} :
         emit' = {[Ev0 EXCEPT !.ev = ev, !.c = c, !.a = config, !.n = version]}
    /\ UNCHANGED <<loaderVars, wgVars, stopClosed, optVars, callerVars,
                   taskVars, cbPending, readerVars, envVars, nalloc, spawned,
                   panicked, histVars>>

\* The body of a running reload callback returns, no call of its in progress.
CallbackReturn(c) ==
    /\ ~panicked
    /\ UNCHANGED <<scn, rp, kd, failed, unretried, origin>>
    /\ cbRun[c] # NoCb
    /\ pc[c] = "idle"
    /\ cbRun' = [cbRun EXCEPT ![c] = NoCb]
    /\ emit' = {[Ev0 EXCEPT !.ev = "onReload.ret", !.c = c, !.k = cbRun[c].k]}
    /\ UNCHANGED <<loaderVars, wgVars, stopClosed, optVars, callerVars,
                   taskVars, cbPending, readerVars, envVars, nalloc, spawned,
                   panicked, histVars>>

\* logReloadError in reloadConfig: o.onReloadError(err) is called on the
\* task's goroutine, and its body calls a method of the Loader, which waits
\* for l.mu.
ReloadErrorReenters(k) ==
    /\ ~panicked
    /\ UNCHANGED <<scn, rp, kd, cbRun, failed, unretried, origin>>
    /\ tpc[k] = "rc_logerr"
    /\ onReloadError
    /\ tpc' = [tpc EXCEPT ![k] = "rc_ecb_lock"]
    /\ emit' = ReloadErrorCalls("-", k, tloc[k].err)
    /\ UNCHANGED <<loaderVars, wgVars, stopClosed, optVars, callerVars,
                   lastMod, tloc, cbPending, readerVars, envVars, nalloc,
                   spawned, panicked, histVars>>

\* logReloadError in ensureConfigLoaded: o.onReloadError(err) is called on
\* the goroutine of StartWatching's caller, and its body calls a method of
\* the Loader, which waits for l.mu.
StartErrorReenters(c) ==
    /\ ~panicked
    /\ UNCHANGED <<scn, rp, kd, cbRun, failed, unretried, origin>>
    /\ pc[c] = "sw_logerr"
    /\ onReloadError
    /\ pc' = [pc EXCEPT ![c] = "sw_ecb_lock"]
    /\ emit' = ReloadErrorCalls(c, 0, loc[c].err)
    /\ UNCHANGED <<loaderVars, wgVars, stopClosed, optVars, loc, taskVars,
                   cbPending, readerVars, envVars, nalloc, spawned, panicked,
                   histVars>>

\* ------------------------------------------------------------- specification
\* The Loader's methods, its goroutines and the sources.
Next ==
    \/ \E c \in Callers : LoadLock(c)
    \/ \E c \in Callers : LoadResolve(c)
    \/ \E c \in Callers : LoadIncVer(c)
    \/ \E c \in Callers : StartCall(c)
    \/ \E c \in Callers : StartEnter(c)
    \/ \E c \in Callers : StartResolve(c)
    \/ \E c \in Callers : StartIncVer(c)
    \/ \E c \in Callers : StartLogErr(c)
    \/ \E c \in Callers : StartInterval(c)
    \/ \E c \in Callers : StartSpawn(c)
    \/ \E c \in Callers : StopEnter(c)
    \/ \E c \in Callers : StopClose(c)
    \/ \E c \in Callers : StopWait(c)
    \/ \E c \in Callers : StopWoken(c)
    \/ \E k \in Cycles : TaskBaseline(k)
    \/ \E k \in Cycles : TaskStop(k)
    \/ \E k \in Cycles : TaskTick(k)
    \/ \E k \in Cycles : ReloadLock(k)
    \/ \E k \in Cycles : ReloadResolve(k)
    \/ \E k \in Cycles : ReloadIncVer(k)
    \/ \E k \in Cycles : ReloadLogErr(k)
    \/ \E cb \in cbPending : CallbackRun(cb)
    \/ \E raw \in Raw : FileModify(raw)
    \/ \E raw \in Raw : SourceChange(raw)

Spec == Init /\ [][Next]_vars

\* One caller on a Loader built with any combination of options, over a
\* source that can fail in every way and a watch file whose metadata can
\* become unreadable.
InitFaults ==
    /\ scn = [callers |-> {"c1"}, raws |-> Raw, history |-> TRUE,
             handlers |-> {}, track |-> FALSE]
    /\ watchPath \in BOOLEAN
    /\ watchEvery \in {0, 1}
    /\ onReload \in BOOLEAN
    /\ onReloadError \in BOOLEAN
    /\ InitLoader
    /\ rp = NoPass
    /\ kd = NoKey

NextFaults == Next \/ StatFlip

SpecFaults == InitFaults /\ [][NextFaults]_vars

\* One caller and one reader thread on a watching Loader, over a source
\* that is empty or holds one of two valid values.
InitRead ==
    /\ scn = [callers |-> {"c1"}, raws |-> {"", "8", "9"}, history |-> FALSE,
             handlers |-> {}, track |-> FALSE]
    /\ watchPath = TRUE
    /\ watchEvery = 1
    /\ onReload = TRUE
    /\ onReloadError = TRUE
    /\ InitLoader
    /\ rp = NoPass
    /\ kd = NoKey

NextRead == Next \/ ReaderGet \/ ReaderVersion

SpecRead == InitRead /\ [][NextRead]_vars

\* One caller and one goroutine for the reload callbacks whose body calls
\* the Loader, on a watching Loader with both callbacks, over a source that
\* is empty or holds one of two valid values.
InitCallbacks ==
    /\ scn = [callers |-> {"c1"}, raws |-> {"", "8", "9"}, history |-> FALSE,
             handlers |-> {"c2"}, track |-> TRUE]
    /\ watchPath = TRUE
    /\ watchEvery = 1
    /\ onReload = TRUE
    /\ onReloadError = TRUE
    /\ InitLoader
    /\ rp = NoPass
    /\ kd = NoKey

NextCallbacks ==
    \/ Next
    \/ \E c \in Callers : CallbackRead(c)
    \/ \E c \in Callers : CallbackReturn(c)
    \/ \E k \in Cycles : ReloadErrorReenters(k)
    \/ \E c \in Callers : StartErrorReenters(c)

SpecCallbacks == InitCallbacks /\ [][NextCallbacks]_vars

\* ------------------------------------------------------------- resolution pass
\* Everything of the Loader, which a resolution pass does not touch.
loaderState ==
    <<loaderVars, wgVars, stopClosed, optVars, callerVars, taskVars,
      cbPending, readerVars, envVars, nalloc, spawned, panicked, emit, scn,
      histVars, cbRun>>

\* prepareOptions / finalizeOptions: with no provider given, the providers
\* are DefaultsWithPrefix[T](o.prefix) and Env().
PrepareOptions ==
    /\ rp.pc = "prepare"
    /\ rp' = [rp EXCEPT
                !.pc = "providers",
                !.providers = IF rp.given = <<>>
                              THEN <<DefaultsWithPrefix(rp.prefix), Env>>
                              ELSE rp.given]
    /\ UNCHANGED <<loaderState, kd>>

\* The key under which the binder looks field f up.
LookupKey(prefix, f) == IF prefix # <<>> THEN prefix \o f.path ELSE f.path

\* loadInternal's loop over o.providers, one provider a step: Values(), an
\* error ends the pass; the keys of a provider that is not prefix-aware get
\* the prefix; the entries are written into values. After the last
\* provider comes parse.
ProviderStep ==
    /\ rp.pc = "providers"
    /\ IF rp.i > Len(rp.providers)
       THEN rp' = [rp EXCEPT !.pc = "parse"]
       ELSE LET p == rp.providers[rp.i]
                r == Values(p, rp.schema, rp.environ)
                v == IF rp.prefix # <<>> /\ ~PrefixAware(p)
                     THEN applyPrefix(r.values, rp.prefix)
                     ELSE r.values IN
            IF r.err # "none"
            THEN rp' = [rp EXCEPT !.pc = "done",
                                  !.ran = Append(rp.ran, "Values"),
                                  !.err = Err("Provider", <<>>, r.err)]
            ELSE rp' = [rp EXCEPT !.i = rp.i + 1,
                                  !.ran = Append(rp.ran, "Values"),
                                  !.values = Merge(rp.values, v)]
    /\ UNCHANGED <<loaderState, kd>>

\* parseStruct, one leaf field a step: a key that is absent or holds nil is
\* skipped; a setField error ends the pass with an *Error of the key that
\* wraps ErrParse and quotes the cause; after the last field comes
\* validateRequired.
ParseField ==
    /\ rp.pc = "parse"
    /\ IF rp.fi > Len(rp.schema)
       THEN rp' = [rp EXCEPT !.pc = "required"]
       ELSE LET f == rp.schema[rp.fi]
                key == LookupKey(rp.prefix, f) IN
            IF key \notin DOMAIN rp.values \/ rp.values[key] = Nil
            THEN rp' = [rp EXCEPT !.fi = rp.fi + 1]
            ELSE LET r == setField(f.kind, rp.values[key]) IN
                 IF r.err # "none"
                 THEN rp' = [rp EXCEPT !.pc = "done",
                                       !.err = Err("Parse", key, r.err)]
                 ELSE rp' = [rp EXCEPT !.fi = rp.fi + 1,
                                       !.cfg[rp.fi] = r.fv]
    /\ UNCHANGED <<loaderState, kd>>

\* The fields checkRequired stops at: tagged required and still zero.
Missing(schema, cfg) ==
    {j \in DOMAIN schema : schema[j].req /\ isZero(cfg[j])}

\* Mutant: validateRequired's error is dropped and the pass goes on.
CheckRequiredGoesOn ==
    /\ rp.pc = "required"
    /\ rp' = [rp EXCEPT !.pc = "validator",
                        !.ran = Append(rp.ran, "validateRequired")]
    /\ UNCHANGED <<loaderState, kd>>

\* validateRequired / checkRequired: the first required field that is zero
\* ends the pass with an *Error of path + name wrapping ErrRequired.
CheckRequired ==
    /\ rp.pc = "required"
    /\ LET miss == Missing(rp.schema, rp.cfg) IN
       IF miss # {}
       THEN rp' = [rp EXCEPT
                     !.pc = "done",
                     !.ran = Append(rp.ran, "validateRequired"),
                     !.err = Err("Required",
                                 rp.schema[CHOOSE j \in miss :
                                             \A m \in miss : j <= m].path,
                                 "required")]
       ELSE rp' = [rp EXCEPT !.pc = "validator",
                             !.ran = Append(rp.ran, "validateRequired")]
    /\ UNCHANGED <<loaderState, kd>>

\* What the validators of the model look at: Port when it is an int.
PortOf(schema, cfg) == IF schema[1].kind = "int" THEN cfg[1].n ELSE 0

\* runOptionValidator: the caller's validator; its error is wrapped as an
\* *Error of "config" wrapping ErrValidation.
OptionValidator ==
    /\ rp.pc = "validator"
    /\ LET e == runOptionValidator(PortOf(rp.schema, rp.cfg)) IN
       IF e # "none"
       THEN rp' = [rp EXCEPT !.pc = "done",
                             !.ran = Append(rp.ran, "validator"),
                             !.err = Err("Validation", <<"config">>, "validator")]
       ELSE rp' = [rp EXCEPT !.pc = "validate",
                             !.ran = Append(rp.ran, "validator")]
    /\ UNCHANGED <<loaderState, kd>>

\* runTypeValidator: the record type's Validate(); then loadInternal
\* returns the record.
TypeValidator ==
    /\ rp.pc = "validate"
    /\ LET e == runTypeValidator(PortOf(rp.schema, rp.cfg)) IN
       IF e # "none"
       THEN rp' = [rp EXCEPT !.pc = "done",
                             !.ran = Append(rp.ran, "Validate"),
                             !.err = Err("Validation", <<"config">>, "Validate")]
       ELSE rp' = [rp EXCEPT !.pc = "done",
                             !.ran = Append(rp.ran, "Validate"),
                             !.ok = TRUE]
    /\ UNCHANGED <<loaderState, kd>>

\* One call of loadInternal on a Loader at rest, for every prefix, provider
\* list, record type and process environment of the model.
InitPass ==
    /\ scn = [callers |-> {}, raws |-> {"8"}, history |-> FALSE,
             handlers |-> {}, track |-> FALSE]
    /\ watchPath = FALSE
    /\ watchEvery = 0
    /\ onReload = FALSE
    /\ onReloadError = FALSE
    /\ InitLoader
    /\ kd = NoKey
    /\ \E prefix \in {<<>>, <<"APP">>}, providers \in ProviderLists,
          schema \in Schemas, environ \in Environs :
         rp = NewPass(prefix, providers, schema, environ)

NextPass ==
    \/ PrepareOptions
    \/ ProviderStep
    \/ ParseField
    \/ CheckRequired
    \/ OptionValidator
    \/ TypeValidator

SpecPass == InitPass /\ [][NextPass]_vars

\* ------------------------------------------------------------- LoadFromEnv
\* What the .env file of the working directory gives: nothing when there is
\* no such file, otherwise its KEY=value lines as strings.
DotEnvs == {NoValues, One(KeyPort, Str("8")), One(KeyDbName, Str("8"))}

\* A LoadFromEnv about to start: the withEnv option comes after the caller's.
NewPassFromEnv(prefix, providers, schema, environ, dotenv) ==
    [pc |-> "prepareFromEnv", dotenv |-> dotenv]
    @@ NewPass(prefix, providers, schema, environ)

\* LoadFromEnv: prepareOptions applies the caller's options and then withEnv,
\* which puts DefaultsWithPrefix[T](o.prefix), File(".env") and Env() in
\* front of the providers the caller gave; finalizeOptions then finds
\* providers and adds none.
PrepareFromEnv ==
    /\ rp.pc = "prepareFromEnv"
    /\ rp' = [rp EXCEPT
                !.pc = "providers",
                !.providers = <<DefaultsWithPrefix(rp.prefix), File(rp.dotenv),
                                Env>> \o rp.given]
    /\ UNCHANGED <<loaderState, kd>>

\* One call of LoadFromEnv on a Loader at rest, for every prefix, provider
\* list, record type, process environment and .env file of the model.
InitFromEnv ==
    /\ scn = [callers |-> {}, raws |-> {"8"}, history |-> FALSE,
             handlers |-> {}, track |-> FALSE]
    /\ watchPath = FALSE
    /\ watchEvery = 0
    /\ onReload = FALSE
    /\ onReloadError = FALSE
    /\ InitLoader
    /\ kd = NoKey
    /\ \E prefix \in {<<>>, <<"APP">>}, providers \in ProviderLists,
          schema \in Schemas, environ \in Environs, dotenv \in DotEnvs :
         rp = NewPassFromEnv(prefix, providers, schema, environ, dotenv)

NextFromEnv ==
    \/ PrepareFromEnv
    \/ ProviderStep
    \/ ParseField
    \/ CheckRequired
    \/ OptionValidator
    \/ TypeValidator

SpecFromEnv == InitFromEnv /\ [][NextFromEnv]_vars

\* ------------------------------------------------------------- key derivation runs
\* toScreamingSnake(name) returns.
DeriveKey ==
    /\ kd.pc = "call"
    /\ kd' = [kd EXCEPT !.pc = "derived", !.key = toScreamingSnake(kd.s)]
    /\ UNCHANGED <<loaderState, rp>>

\* toScreamingSnake is called on the key it returned.
DeriveAgain ==
    /\ kd.pc = "derived"
    /\ kd' = [kd EXCEPT !.pc = "again", !.again = toScreamingSnake(kd.key)]
    /\ UNCHANGED <<loaderState, rp>>

\* One call of toScreamingSnake, for every name of the model, on a Loader at
\* rest.
InitKey ==
    /\ scn = [callers |-> {}, raws |-> {"8"}, history |-> FALSE,
             handlers |-> {}, track |-> FALSE]
    /\ watchPath = FALSE
    /\ watchEvery = 0
    /\ onReload = FALSE
    /\ onReloadError = FALSE
    /\ InitLoader
    /\ rp = NoPass
    /\ \E s \in Names : kd = [NoKey EXCEPT !.pc = "call", !.s = s]

NextKey == DeriveKey \/ DeriveAgain

SpecKey == InitKey /\ [][NextKey]_vars

\* ------------------------------------------------------------- properties
\* The instance inst and the version v belong to the same successful
\* resolution: none and 0, or the record whose swap produced version v.
Paired(inst, v) ==
    IF v = 0 THEN IsNil(inst)
    ELSE v <= Len(hist) /\ ~IsNil(inst) /\ inst = hist[v]

\* The step is taken by the goroutine that holds the write lock.
ByLockHolder ==
    /\ mu # NoHolder
    /\ mu.c # "-" => pc'[mu.c] # pc[mu.c]
    /\ mu.k # 0 => tpc'[mu.k] # tpc[mu.k]

\* C1: whenever the write lock is free the held instance is the record whose
\* swap produced the current version (none at version 0) and as many records
\* have been swapped in as the version counts; the version never decreases
\* and never rises by more than 1 in a step, and only a step of the
\* goroutine holding the write lock changes the version or the instance.
C1_VersionAndInstanceTogether ==
    /\ [](mu = NoHolder => Paired(config, version) /\ nalloc = version)
    /\ [][/\ version' \in {version, version + 1}
          /\ (version' # version \/ config' # config) => ByLockHolder]_vars

\* C1 witness: a background reload has just produced version 2.
C1_Witness ==
    /\ version = 2
    /\ mu = NoHolder
    /\ \E e \in emit : e.ev = "go onReload" /\ e.b = config

\* C2: before any resolution has succeeded the version is 0 and no instance
\* is held; a Load() whose resolution succeeds stores a fresh record holding
\* the resolved content, whatever was held, and then raises the version by
\* exactly 1 and returns that record.
C2_LoadAlwaysSwaps ==
    /\ [](nalloc = 0 => version = 0 /\ IsNil(config))
    /\ [][\A c \in Callers :
            /\ (pc[c] = "ld_resolve" /\ pc'[c] # "ld_resolve"
                /\ loadInternal(src).err = "none")
               => /\ pc'[c] = "ld_incver"
                  /\ config' # config
                  /\ \A i \in 1..Len(hist) : config' # hist[i]
                  /\ config'.port = loadInternal(src).port
                  /\ version' = version
            /\ (pc[c] = "ld_incver" /\ pc'[c] # "ld_incver")
               => /\ version' = version + 1
                  /\ config' = config
                  /\ emit' = {[Ev0 EXCEPT !.ev = "Load.ok", !.c = c, !.a = config]}
                  /\ mu' = NoHolder]_vars

\* C2 witness: a Load() has just returned version 2 with the content that
\* version 1 already had.
C2_Witness ==
    /\ version = 2
    /\ \E e \in emit : e.ev = "Load.ok" /\ e.a = config
    /\ hist[1].port = hist[2].port
    /\ hist[1] # hist[2]

\* C3: in reloadConfig with a reload callback set, a successful resolution
\* whose content equals the held instance's ends the reload with instance,
\* version and pending callbacks unchanged; one whose content differs stores
\* a new record, and the step that follows raises the version by exactly 1
\* and starts exactly one callback, with the previously held instance as old
\* and the new one as new.
C3_ReloadOnlyOnChange ==
    [][\A k \in Cycles :
         /\ (tpc[k] = "rc_resolve" /\ tpc'[k] # "rc_resolve"
             /\ loadInternal(src).err = "none")
            => IF config.port = loadInternal(src).port
               THEN /\ config' = config
                    /\ version' = version
                    /\ cbPending' = cbPending
                    /\ emit' = {}
                    /\ tpc'[k] = "select"
               ELSE /\ config'.port = loadInternal(src).port
                    /\ \A i \in 1..Len(hist) : config' # hist[i]
                    /\ version' = version
                    /\ cbPending' = cbPending
                    /\ tpc'[k] = "rc_incver"
         /\ (tpc[k] = "rc_incver" /\ tpc'[k] # "rc_incver")
            => /\ version' = version + 1
               /\ config' = config
               /\ onReload =>
                    /\ cbPending' = cbPending \cup
                         {[k |-> k, old |-> hist[version], new |-> config]}
                    /\ Cardinality(cbPending') = Cardinality(cbPending) + 1]_vars

\* C3 witness: the reload callback has just been called with version 1's
\* instance as old and version 2's as new, and their contents differ.
C3_Witness ==
    /\ version = 2
    /\ \E e \in emit : /\ e.ev = "onReload"
                       /\ e.a = hist[1] /\ e.b = hist[2]
                       /\ e.a.port # e.b.port

\* A record that passed binding and the three validation checks.
Validated(cfg) ==
    /\ \E raw \in Raw : /\ ProviderValues(raw).err = "none"
                        /\ parse(ProviderValues(raw).values) =
                             [err |-> "none", port |-> cfg.port]
    /\ validateRequired(cfg.port) = "none"
    /\ runOptionValidator(cfg.port) = "none"
    /\ runTypeValidator(cfg.port) = "none"

\* The source fails at one of the stages of a resolution pass.
SourceFails ==
    \/ ProviderValues(src).err # "none"
    \/ parse(ProviderValues(src).values).err # "none"
    \/ validateRequired(parse(ProviderValues(src).values).port) # "none"
    \/ runOptionValidator(parse(ProviderValues(src).values).port) # "none"
    \/ runTypeValidator(parse(ProviderValues(src).values).port) # "none"

\* C4: a held instance always passed binding and the three checks; and a
\* resolution that fails, in Load(), in StartWatching()'s initial load or in
\* reloadConfig, changes neither the instance nor the version, in that step
\* and in the error handling that follows, and hands no record to its caller.
C4_FailedResolutionLeavesState ==
    /\ [](~IsNil(config) => Validated(config))
    /\ [][/\ \A c \in Callers :
               /\ (pc[c] \in ResolvePcs /\ pc'[c] # pc[c] /\ SourceFails)
                  => /\ config' = config /\ version' = version
                     /\ pc'[c] \in {"idle", "sw_logerr"}
                     /\ \A e \in emit' : e.ev = "Load.err" /\ IsNil(e.a)
               /\ (pc[c] = "sw_logerr" /\ pc'[c] # pc[c])
                  => /\ config' = config /\ version' = version
                     /\ \E e \in emit' : e.ev = "Start.err" /\ IsNil(e.a)
          /\ \A k \in Cycles :
               /\ (tpc[k] = "rc_resolve" /\ tpc'[k] # tpc[k] /\ SourceFails)
                  => /\ config' = config /\ version' = version
                     /\ tpc'[k] = "rc_logerr"
               /\ (tpc[k] = "rc_logerr" /\ tpc'[k] # tpc[k])
                  => config' = config /\ version' = version]_vars

\* C4 witness: a background re-resolution rejected by a validator has just
\* been reported while version 1's instance is held.
C4_Witness ==
    /\ version = 1
    /\ config = hist[1]
    /\ \E e \in emit : e.ev = "onReloadError" /\ e.k # 0 /\ e.err = "validation"

\* C5: no reload callback of a watch cycle is still to begin once a
\* StopWatching() that stopped that cycle has returned.
C5_NoCallbackAfterStop == \A cb \in cbPending : cb.k \notin stopReturned

\* A goroutine is inside loadInternal.
Resolving ==
    \/ \E c \in Callers : pc[c] \in ResolvePcs
    \/ \E k \in Cycles : tpc[k] = "rc_resolve"

\* C6: a StopWatching() called while not watching changes nothing; a
\* StopWatching() that stopped a cycle returns only after that cycle's task
\* has exited; and once a StopWatching() has returned, with the Loader not
\* watching and no other call in progress, the instance and the version do
\* not change until a Load() or a StartWatching() is called.
C6_StopQuiesces ==
    /\ [](\A k \in stopReturned : tpc[k] = "exited")
    /\ [][/\ (\E e \in emit' : e.ev = "Stop.noop")
             => UNCHANGED <<loaderVars, wgVars, stopClosed, tpc>>
          /\ quiet => (config' = config /\ version' = version)]_vars

\* C7: every task ever started, except the one of the cycle the Loader is
\* in, has been told to stop by a StopWatching() that left Watching; a task
\* is started only by a step that takes the Loader from not watching to
\* watching; and a StartWatching() that finds the Loader watching returns nil
\* and changes nothing of the Loader, its WaitGroup or its tasks.
C7_OneWinner ==
    /\ [](\A k \in 1..spawned :
            \/ isWatching /\ k = stop
            \/ k \in stopClosed
            \/ \E c \in Callers : pc[c] = "st_close" /\ loc[c].stop = k)
    /\ [][/\ spawned' # spawned
             => spawned' = spawned + 1 /\ ~isWatching /\ isWatching'
          /\ \A c \in Callers :
               (pc[c] = "sw_lock" /\ pc'[c] # "sw_lock" /\ isWatching)
               => /\ UNCHANGED <<loaderVars, wgVars, stopClosed, taskVars, spawned>>
                  /\ \E e \in emit' : e.ev = "Start.noop" /\ e.c = c]_vars

\* C7 witness: a StartWatching() that was called while the Loader was not
\* watching has just returned as a no-op, another caller having won the
\* transition meanwhile; one task has been started.
C7_Witness ==
    /\ \E e \in emit : e.ev = "Start.noop" /\ e.n = 1
    /\ spawned = 1
    /\ isWatching
    /\ stopClosed = {}

\* C8 as claimed: the instance a reader got from Get() and the version it
\* then got from Version() belong to the same successful resolution.
C8_ReaderPairConsistent ==
    \A e \in emit : e.ev = "Read" => Paired(e.a, e.n)

\* C8: every single Get() and every single Version() reads a state in which
\* the held instance and the version belong to the same successful
\* resolution.
C8_EachReadConsistent ==
    \A e \in emit : e.ev \in {"Get", "Version"} => Paired(e.a, e.n)

\* C8 witness: Version() has just returned 2, consistently, to a reader
\* whose Get() had returned version 1's instance.
C8_Witness ==
    /\ \E e \in emit : e.ev = "Version" /\ e.n = 2 /\ e.a = hist[2]
    /\ \E e \in emit : e.ev = "Read" /\ e.a = hist[1]

\* C9: while a goroutine is inside loadInternal, Get() and Version() can
\* take the read lock.
C9_ReadersNeverWaitForResolution == Resolving => CanRLock

\* C10: a failed background re-resolution leaves instance, version and
\* pending callbacks as they were; its error handling calls the logger, and
\* the reload-error callback if one is set, with the failure, starts no
\* reload callback, and puts the task back at its select with the stop
\* channel and the WaitGroup untouched and lastMod not beyond the file's
\* modification time.
C10_ReloadFailureReported ==
    [][\A k \in Cycles :
         /\ (tpc[k] = "rc_resolve" /\ tpc'[k] # tpc[k] /\ SourceFails)
            => /\ tpc'[k] = "rc_logerr"
               /\ UNCHANGED <<config, version, cbPending>>
         /\ (tpc[k] = "rc_logerr" /\ tpc'[k] # tpc[k])
            => /\ [Ev0 EXCEPT !.ev = "logger.Printf", !.k = k, !.err = tloc[k].err]
                    \in emit'
               /\ onReloadError =>
                    [Ev0 EXCEPT !.ev = "onReloadError", !.k = k, !.err = tloc[k].err]
                      \in emit'
               /\ tloc[k].err # "none"
               /\ \A e \in emit' : e.ev \notin {"go onReload", "onReload"}
               /\ UNCHANGED <<config, version, cbPending, wgVars, stopClosed>>
               /\ tpc'[k] = "select"
               /\ lastMod'[k] <= mtime']_vars

\* C10 witness: a task that had a re-resolution fail has just swapped in a
\* later modification.
C10_Witness ==
    \E e \in emit : e.ev = "go onReload" /\ e.k \in failed /\ e.b = config

\* C11: on a Loader built with a watch target and an interval that is not
\* positive, no step of a StartWatching() call changes the held instance or
\* the version, makes the Loader watching or starts a task, and the call
\* returns an error that it has reported to the logger.
C11_BadIntervalLeavesState ==
    [][\A c \in Callers :
         (pc[c] \in StartPcs /\ pc'[c] # pc[c] /\ watchPath /\ watchEvery <= 0)
         => /\ config' = config /\ version' = version
            /\ ~isWatching' /\ spawned' = spawned /\ tpc' = tpc
            /\ pc'[c] = "idle" =>
                 \E e \in emit' :
                    /\ e.ev = "Start.err" /\ e.c = c
                    /\ [Ev0 EXCEPT !.ev = "logger.Printf", !.c = c,
                                   !.err = e.err] \in emit']_vars

\* C12: a StartWatching() on a Loader that holds no instance resolves with
\* the lock held; when that resolution fails, the instance stays nil, the
\* version 0 and the Loader not watching, through the error handling too,
\* which calls the logger, and the reload-error callback if one is set,
\* with the failure, returns that error, starts no task and releases the
\* lock.
C12_InitialLoadFailure ==
    /\ [](\A c \in Callers :
            pc[c] \in {"sw_resolve", "sw_logerr"}
            => IsNil(config) /\ version = 0 /\ ~isWatching /\ mu = ByCaller(c))
    /\ [][\A c \in Callers :
            /\ (pc[c] = "sw_resolve" /\ pc'[c] # pc[c] /\ SourceFails)
               => /\ pc'[c] = "sw_logerr"
                  /\ loc'[c].err # "none"
                  /\ UNCHANGED <<loaderVars, wgVars, taskVars, spawned>>
            /\ (pc[c] = "sw_logerr" /\ pc'[c] # pc[c])
               => /\ pc'[c] = "idle"
                  /\ [Ev0 EXCEPT !.ev = "Start.err", !.c = c, !.err = loc[c].err]
                       \in emit'
                  /\ [Ev0 EXCEPT !.ev = "logger.Printf", !.c = c, !.err = loc[c].err]
                       \in emit'
                  /\ onReloadError =>
                       [Ev0 EXCEPT !.ev = "onReloadError", !.c = c, !.err = loc[c].err]
                         \in emit'
                  /\ IsNil(config') /\ version' = 0 /\ ~isWatching'
                  /\ mu' = NoHolder
                  /\ UNCHANGED <<stop, wgVars, taskVars, spawned>>]_vars

\* C12 witness: a StartWatching() has just returned the provider's failure
\* of its initial load, reported to the logger and to the error callback.
C12_Witness ==
    /\ \E e \in emit : e.ev = "Start.err" /\ e.err = "provider"
    /\ \E e \in emit : e.ev = "onReloadError" /\ e.err = "provider"
    /\ \E e \in emit : e.ev = "logger.Printf" /\ e.err = "provider"
    /\ IsNil(config) /\ version = 0 /\ ~isWatching

\* C13: a StartWatching() that takes the lock on a Loader without a watch
\* target, or on one that is watching, returns nil at once: it resolves
\* nothing and changes nothing of the Loader, its WaitGroup, its tasks or
\* its history of swaps; and a Loader without a watch target never watches.
C13_StartNoOps ==
    /\ [](~watchPath => ~isWatching /\ spawned = 0)
    /\ [][\A c \in Callers :
            (pc[c] = "sw_lock" /\ pc'[c] # pc[c] /\ (isWatching \/ ~watchPath))
            => /\ pc'[c] = "idle"
               /\ \E e \in emit' : /\ e.ev = IF isWatching THEN "Start.noop"
                                             ELSE "Start.nopath"
                                   /\ e.c = c /\ e.err = "none"
               /\ \A e \in emit' : e.ev \in {"Start.noop", "Start.nopath"}
               /\ UNCHANGED <<loaderVars, wgVars, stopClosed, taskVars,
                              spawned, nalloc, hist, cbPending>>]_vars

\* C13 witness: a StartWatching() called on a watching Loader has just
\* returned as a no-op while the task polls on.
C13_Witness ==
    /\ \E e \in emit : e.ev = "Start.noop" /\ e.n = 0
    /\ isWatching
    /\ stop # 0 /\ tpc[stop] = "select"
    /\ version = 1

\* What the j-th provider of the pass contributes: its Values() under the
\* keys with which they enter the merged mapping.
Entered(j) ==
    LET p == rp.providers[j]
        out == Values(p, rp.schema, rp.environ).values IN
    IF rp.prefix # <<>> /\ ~PrefixAware(p) THEN applyPrefix(out, rp.prefix)
    ELSE out

\* The providers already merged that contribute key k.
Producers(k) == {j \in 1..(rp.i - 1) : k \in DOMAIN Entered(j)}

\* C14: at every point of a pass the merged mapping holds exactly the keys
\* that the providers merged so far contribute, each with the value of the
\* last provider in the list that contributes it; and in the record a
\* pass returns, every field whose key holds a value other than nil has
\* that value, converted to the field's kind.
C14_LaterProviderWins ==
    rp.pc # "none" =>
      /\ \A k \in DOMAIN rp.values : Producers(k) # {}
      /\ \A j \in 1..(rp.i - 1) : \A k \in DOMAIN Entered(j) :
           /\ k \in DOMAIN rp.values
           /\ rp.values[k] =
                Entered(CHOOSE m \in Producers(k) :
                          \A n \in Producers(k) : n <= m)[k]
      /\ rp.ok =>
           \A f \in DOMAIN rp.schema :
              LET key == LookupKey(rp.prefix, rp.schema[f]) IN
              (key \in DOMAIN rp.values /\ rp.values[key] # Nil)
              => rp.cfg[f] = setField(rp.schema[f].kind, rp.values[key]).fv

\* C14 witness: with the defaults (PORT=8) followed by a map (PORT=9) and
\* no prefix, the pass has returned a record whose Port is 9.
C14_Witness ==
    /\ rp.pc = "done" /\ rp.ok
    /\ rp.prefix = <<>>
    /\ rp.given = <<Defaults, Map(One(KeyPort, Str("9")))>>
    /\ rp.schema[1].def = "8"
    /\ rp.cfg[1].n = 9

\* C15: in a pass with a prefix, the step that merges a provider puts each
\* of its keys into the mapping, with its value, under prefix + "_" + key
\* when the provider is a Map or a File and under the key itself when it is
\* Env or Defaults, and adds no other key; and a field that has been bound
\* holds the converted value found under prefix + "_" + path and name.
C15_PrefixRewrite ==
    /\ [][(rp.pc = "providers" /\ rp'.i = rp.i + 1 /\ rp.prefix # <<>>)
          => LET p == rp.providers[rp.i]
                 out == Values(p, rp.schema, rp.environ).values
                 in(k) == IF p.kind \in {"map", "file"} THEN rp.prefix \o k
                          ELSE k IN
             /\ \A k \in DOMAIN out :
                  in(k) \in DOMAIN rp'.values /\ rp'.values[in(k)] = out[k]
             /\ DOMAIN rp'.values =
                  DOMAIN rp.values \cup {in(k) : k \in DOMAIN out}]_vars
    /\ []((rp.pc # "none" /\ rp.prefix # <<>>)
          => \A f \in DOMAIN rp.schema :
               rp.cfg[f] # Zero
               => /\ rp.prefix \o rp.schema[f].path \in DOMAIN rp.values
                  /\ rp.cfg[f] =
                       setField(rp.schema[f].kind,
                                rp.values[rp.prefix \o rp.schema[f].path]).fv)

\* C15 witness: with prefix APP, no provider given and APP_PORT=9 in the
\* environment, the pass has returned a record whose Port is 9.
C15_Witness ==
    /\ rp.pc = "done" /\ rp.ok
    /\ rp.prefix = <<"APP">>
    /\ rp.given = <<>>
    /\ rp.environ = One(KeyAppPort, Str("9"))
    /\ rp.schema[1].kind = "int"
    /\ rp.cfg[1].n = 9

\* Field f has a default tag and no provider of the pass other than the
\* defaults provider contributes its key.
DefaultStands(f) ==
    /\ rp.schema[f].def # ""
    /\ \A j \in DOMAIN rp.providers :
         rp.providers[j].kind # "defaults"
         => rp.prefix \o rp.schema[f].path \notin DOMAIN Entered(j)

\* C16: in the record returned by a pass with a prefix, whose providers
\* are the implicit ones or include Defaults[T](), every field that has a
\* default tag, and whose key no other provider contributes, holds its
\* default.
C16_DefaultsKeepWorking ==
    (/\ rp.pc = "done" /\ rp.ok
     /\ rp.prefix # <<>>
     /\ rp.given = <<>> \/ \E j \in DOMAIN rp.given : rp.given[j] = Defaults)
    => \A f \in DOMAIN rp.schema :
         DefaultStands(f)
         => rp.cfg[f] = setField(rp.schema[f].kind, Str(rp.schema[f].def)).fv

\* C17: a pass that got as far as the required check, with a required field
\* still zero, ends with a Required error; a Required error names the key
\* under which the binder looked up a required field that is still zero;
\* and no Required error names a required field that a provider has set.
C17_RequiredNamesCanonicalKey ==
    rp.pc = "done" =>
      /\ (rp.err.kind \notin {"Provider", "Parse"}
          /\ Missing(rp.schema, rp.cfg) # {})
         => rp.err.kind = "Required"
      /\ rp.err.kind = "Required"
         => \E f \in Missing(rp.schema, rp.cfg) :
              rp.err.field = LookupKey(rp.prefix, rp.schema[f])
      /\ \A f \in DOMAIN rp.schema :
           (rp.schema[f].req /\ ~isZero(rp.cfg[f]) /\ rp.err.kind = "Required")
           => rp.err.field \notin {rp.schema[f].path,
                                   LookupKey(rp.prefix, rp.schema[f])}

\* A call of one of the three checks.
IsCheck(call) == call # "Values"
\* The checks a pass has run so far, in order.
ChecksRun == SelectSeq(rp.ran, IsCheck)
\* The three checks in the order of loadInternal.
AllChecks == <<"validateRequired", "validator", "Validate">>

\* C18: the checks a pass has run are always the first ones of required
\* check, caller validator, Validate(), in that order and each once; a pass
\* that failed before the checks ran none; and a pass that reached them
\* ended at the first one that fails, with a Required error from the first
\* and a Validation error from the other two, without running the ones
\* after it, and returned its record when none fails.
C18_ValidationOrder ==
    rp.pc # "none" =>
      /\ Len(ChecksRun) <= Len(AllChecks)
      /\ ChecksRun = SubSeq(AllChecks, 1, Len(ChecksRun))
      /\ (rp.pc = "done" /\ rp.err.kind \in {"Provider", "Parse"})
         => ChecksRun = <<>>
      /\ (rp.pc = "done" /\ rp.err.kind \notin {"Provider", "Parse"})
         => IF Missing(rp.schema, rp.cfg) # {}
            THEN /\ rp.err.kind = "Required" /\ ~rp.ok
                 /\ ChecksRun = SubSeq(AllChecks, 1, 1)
            ELSE IF runOptionValidator(PortOf(rp.schema, rp.cfg)) # "none"
            THEN /\ rp.err.kind = "Validation" /\ rp.err.cause = "validator"
                 /\ ~rp.ok
                 /\ ChecksRun = SubSeq(AllChecks, 1, 2)
            ELSE IF runTypeValidator(PortOf(rp.schema, rp.cfg)) # "none"
            THEN /\ rp.err.kind = "Validation" /\ rp.err.cause = "Validate"
                 /\ ~rp.ok
                 /\ ChecksRun = AllChecks
            ELSE /\ rp.ok /\ rp.err = NoErr
                 /\ ChecksRun = AllChecks

\* C18 witness: a pass has ended with a Required error, having run the
\* required check alone, on a record that the caller validator rejects.
C18_Witness ==
    /\ rp.pc = "done"
    /\ rp.err.kind = "Required"
    /\ ChecksRun = <<"validateRequired">>
    /\ runOptionValidator(PortOf(rp.schema, rp.cfg)) # "none"

\* C19: the binding step of a field whose key is absent from the merged
\* mapping, or holds nil or the empty string, leaves the field at its zero
\* value, reports no error and goes on to the next field, whatever the
\* field's kind.
C19_EmptyLeavesZero ==
    [][(/\ rp.pc = "parse"
        /\ rp.fi <= Len(rp.schema)
        /\ LET key == LookupKey(rp.prefix, rp.schema[rp.fi]) IN
           key \in DOMAIN rp.values => rp.values[key] \in {Nil, Str("")})
       => /\ rp'.pc = "parse"
          /\ rp'.fi = rp.fi + 1
          /\ rp'.cfg[rp.fi] = Zero
          /\ rp'.err = NoErr]_vars

\* C20: the binding step of a field whose value setField cannot convert
\* ends the pass at that field: no later field is bound, no record is
\* returned, and the error carries the field's key and is of kind
\* UnsupportedType when setField has no case for the field's kind and of
\* kind Parse otherwise.
C20_CoercionFailure ==
    [][\A key \in DOMAIN rp.values :
         (/\ rp.pc = "parse"
          /\ rp.fi <= Len(rp.schema)
          /\ key = LookupKey(rp.prefix, rp.schema[rp.fi])
          /\ rp.values[key] # Nil
          /\ setField(rp.schema[rp.fi].kind, rp.values[key]).err # "none")
         => /\ rp'.pc = "done"
            /\ ~rp'.ok
            /\ rp'.cfg = rp.cfg
            /\ rp'.err.field = key
            /\ rp'.err.kind =
                 IF setField(rp.schema[rp.fi].kind, rp.values[key]).err
                      = "unsupported"
                 THEN "UnsupportedType" ELSE "Parse"]_vars

\* The name's first n runes upper-cased, with an underscore in front of
\* the runes at the positions in marks.
RECURSIVE KeyWith(_, _, _)
KeyWith(s, n, marks) ==
    IF n = 0 THEN <<>>
    ELSE KeyWith(s, n - 1, marks)
         \o (IF n \in marks THEN <<"_">> ELSE <<>>)
         \o ToUpper(<<s[n]>>)

\* The capitals that follow a lowercase letter, or follow a capital and are
\* followed by a lowercase letter.
AcronymMarks(s) ==
    {n \in DOMAIN s :
        /\ n > 1
        /\ IsUpperAZ(s[n])
        /\ \/ IsLowerAZ(s[n - 1])
           \/ IsUpperAZ(s[n - 1]) /\ n < Len(s) /\ IsLowerAZ(s[n + 1])}

\* The keys the package's test expects of its four names.
KnownKeys(s, key) ==
    /\ s = <<"P", "o", "r", "t">> => key = <<"P", "O", "R", "T">>
    /\ s = <<"D", "a", "t", "a", "b", "a", "s", "e", "U", "R", "L">>
       => key = <<"D", "A", "T", "A", "B", "A", "S", "E", "_", "U", "R", "L">>
    /\ s = <<"H", "T", "T", "P", "S", "e", "r", "v", "e", "r">>
       => key = <<"H", "T", "T", "P", "_", "S", "E", "R", "V", "E", "R">>
    /\ s = <<"J", "W", "T", "S", "e", "c", "r", "e", "t">>
       => key = <<"J", "W", "T", "_", "S", "E", "C", "R", "E", "T">>

\* C21: the derived key is the name upper-cased, with an
\* underscore before a capital exactly when the capital follows a lowercase
\* letter, or follows a capital and is followed by a lowercase letter; and
\* the four names of the test give their four keys.
C21_AcronymRuleExactly ==
    kd.pc # "none" /\ kd.pc # "call"
    => /\ kd.key = KeyWith(kd.s, Len(kd.s), AcronymMarks(kd.s))
       /\ KnownKeys(kd.s, kd.key)

\* C22: the key derived from a derived key is that key.
C22_Idempotent == kd.pc = "again" => kd.again = kd.key

\* C22 witness: aBa has given A_BA, and A_BA has given A_BA.
C22_Witness ==
    /\ kd.pc = "again"
    /\ kd.s = <<"a", "B", "a">>
    /\ kd.key = <<"A", "_", "B", "A">>
    /\ kd.again = kd.key

\* C23: a LoadFromEnv resolves with the defaults, then the .env file, then
\* the process environment, and nothing after the environment overrides
\* it: in the record it returns, every field whose key is set in the
\* environment holds the environment's value, whatever the defaults, the
\* .env file and the caller's providers hold under that key.
C23_EnvironmentWins ==
    (rp.pc = "done" /\ rp.ok)
    => /\ SubSeq(rp.providers, 1, 3) =
            <<DefaultsWithPrefix(rp.prefix), File(rp.dotenv), Env>>
       /\ \A f \in DOMAIN rp.schema :
            LET key == LookupKey(rp.prefix, rp.schema[f]) IN
            key \in DOMAIN rp.environ
            => rp.cfg[f] = setField(rp.schema[f].kind, rp.environ[key]).fv

\* The watch cycles whose background task has been started and has not
\* returned from run.
LiveTasks == {k \in Cycles : tpc[k] \notin {"unborn", "exited"}}

\* C24: at every moment at most one background polling task is live, and
\* whenever the Loader is watching with the lock free, the task of the cycle
\* it is in is live, a first cycle or a later one.
C24_AtMostOneTask ==
    /\ Cardinality(LiveTasks) <= 1
    /\ (isWatching /\ mu = NoHolder) => stop \in LiveTasks

\* C27: whenever the watch target is modified, every live task that has not
\* been told to stop holds a baseline, captured when its cycle began, that
\* is not later than the target's timestamp before the modification; so
\* the modification is later than the baseline.
C27_BaselineAtTransition ==
    [][\A k \in LiveTasks :
         (mtime' > mtime /\ k \notin stopClosed)
         => lastMod[k] # -1 /\ lastMod[k] <= mtime]_vars

\* A caller is in StopWatching() after its Unlock: about to close the stop
\* channel, about to wait, or parked in wg.Wait().
Stopping(c) == pc[c] \in {"st_close", "st_wait", "st_blocked", "st_woken"}

\* C29: while a caller is in StopWatching() no step resets the WaitGroup or
\* adds to its counter; a caller parked in Wait() is counted as a waiter of
\* a WaitGroup whose counter is positive; no step of the WaitGroup panics;
\* and a StopWatching() that stopped a cycle has returned only once that
\* cycle's task has exited.
C29_StopReturns ==
    /\ [](~panicked)
    /\ [](\A c \in Callers :
            pc[c] = "st_blocked" => wgWaiters >= 1 /\ wgCount >= 1)
    /\ [](\A k \in stopReturned : tpc[k] = "exited")
    /\ [][(\E c \in Callers : Stopping(c))
          => \A d \in Callers :
               /\ ~(pc[d] = "sw_interval" /\ pc'[d] = "sw_add")
               /\ ~(pc[d] = "sw_add" /\ pc'[d] # "sw_add")]_vars

\* C25: the step of reloadConfig that starts the reload callback only
\* starts its goroutine, releases the lock and puts the task back at its
\* select; the step in which the callback begins to run is taken by no
\* caller and no task and leaves the lock as it is; and a call that a
\* running callback has made to the Loader is never cut short by a panic
\* and, when it is parked in wg.Wait(), is a waiter that the WaitGroup
\* counts, with a task still to signal it.
C25_CallbackReentry ==
    /\ [][/\ \A k \in Cycles :
               (tpc[k] = "rc_incver" /\ tpc'[k] # "rc_incver")
               => /\ mu' = NoHolder
                  /\ tpc'[k] = "select"
                  /\ \A e \in emit' : e.ev = "go onReload"
          /\ (\E e \in emit' : e.ev = "onReload")
             => mu' = mu /\ tpc' = tpc /\ pc' = pc]_vars
    /\ [](\A c \in Callers :
            (cbRun[c] # NoCb /\ pc[c] # "idle")
            => /\ ~panicked
               /\ pc[c] = "st_blocked" => wgWaiters >= 1 /\ wgCount >= 1)

\* C26: whenever a task whose latest re-resolution failed is back at its
\* select, and the watch file's metadata can be read, its next tick is one
\* that calls reloadConfig, whether or not the file has been modified since
\* the failure.
C26_RetryOnNextTick ==
    \A k \in unretried :
       (tpc[k] = "select" /\ ~statFails /\ ~panicked)
       => ENABLED (TaskTick(k) /\ tpc'[k] = "rc_lock")


\* A step of Load(): taking the lock, the resolution, or the version bump.
LoadStep(c) ==
    \/ pc[c] = "idle" /\ pc'[c] = "ld_resolve"
    \/ pc[c] \in LoadPcs /\ pc'[c] # pc[c]

\* The reload callbacks started and not yet returned.
CallbacksInFlight == cbPending \cup {cbRun[c] : c \in {d \in Callers : cbRun[d] # NoCb}}

\* C28: no step of an explicit Load() starts a reload callback or reports to
\* the reload-error callback, whatever its outcome; every reload callback in
\* flight carries a version that reloadConfig installed and the one before
\* it; and when the watcher re-resolves content that a Load() already swapped
\* in, it returns with no callback started and version and instance as held.
C28_LoadReportsNothing ==
    /\ [][\A c \in Callers :
            LoadStep(c) =>
               /\ cbPending' = cbPending
               /\ cbRun' = cbRun
               /\ \A e \in emit' : e.ev \in {"Load.ok", "Load.err"}]_vars
    /\ [](\A cb \in CallbacksInFlight :
            \E v \in 2..Len(origin) :
               /\ v <= Len(hist)
               /\ origin[v] = "reloadConfig"
               /\ hist[v] = cb.new
               /\ hist[v - 1] = cb.old)
    /\ [][\A k \in Cycles :
            ( /\ tpc[k] = "rc_resolve"
              /\ tpc'[k] # "rc_resolve"
              /\ version = Len(origin)
              /\ version >= 1
              /\ origin[version] = "Load"
              /\ loadInternal(src).err = "none"
              /\ loadInternal(src).port = config.port )
            => /\ tpc'[k] = "select"
               /\ cbPending' = cbPending
               /\ version' = version
               /\ config' = config
               /\ emit' = {}]_vars

\* C28 witness: an explicit Load() swapped in changed content of the watch
\* file as version 2, and the watcher, woken by the same modification, holds
\* the lock and is re-resolving that very content.
C28_Witness ==
    /\ version = 2
    /\ origin = <<"StartWatching", "Load">>
    /\ Len(hist) = 2
    /\ hist[1].port # hist[2].port
    /\ config = hist[2]
    /\ cbPending = {}
    /\ \E k \in Cycles :
          /\ tpc[k] = "rc_resolve"
          /\ lastMod[k] = mtime
          /\ loadInternal(src).err = "none"
          /\ loadInternal(src).port = config.port


\* logReloadError is executing on some goroutine: the logger and the error
\* callback, called in line by reloadConfig or by ensureConfigLoaded.
ErrorCallbackRuns ==
    \/ \E k \in Cycles : tpc[k] \in {"rc_logerr", "rc_ecb_lock"}
    \/ \E c \in Callers : pc[c] \in {"sw_logerr", "sw_ecb_lock"}

\* The returns of Get, Version, Load and StopWatching.
Completions == {"Get", "Version", "Read", "Load.ok", "Load.err", "Stop.noop", "Stop.ok"}

\* C30: the goroutine that runs the reload-error callback holds the Loader's
\* exclusive lock; from the callback's invocation until its return no Get,
\* Version, Load or StopWatching on the Loader returns; and an error callback
\* whose body has called the Loader stays in that call.
C30_ErrorCallbackUnderLock ==
    /\ [](\A k \in Cycles :
            tpc[k] \in {"rc_logerr", "rc_ecb_lock"} => mu = ByTask(k))
    /\ [](\A c \in Callers :
            pc[c] \in {"sw_logerr", "sw_ecb_lock"} => mu = ByCaller(c))
    /\ [][(ErrorCallbackRuns /\ ErrorCallbackRuns')
            => \A e \in emit' : e.ev \notin Completions]_vars
    /\ [][\A k \in Cycles :
            tpc[k] = "rc_ecb_lock" => tpc'[k] = "rc_ecb_lock"]_vars
    /\ [][\A c \in Callers :
            pc[c] = "sw_ecb_lock" => pc'[c] = "sw_ecb_lock"]_vars

====
